---- MODULE Spec2Model ----
(***************************************************************************)
(* A model of the CatScript engine: the shared dictionary, the contexts    *)
(* with their stacks and input cursor, the compiler (`interpret`), the     *)
(* executor (`executeColonDefinition`, `query`) and the primitive words.   *)
(*                                                                         *)
(* A JavaScript value is a tagged tuple.  Arrays are mutable objects, so   *)
(* an array value is a reference <<"arr", id>> into `heap`; the `compiled` *)
(* array of a dictionary entry lives in the same heap (the `]` word hands  *)
(* out an entry's `compiled` array as an ordinary array value).  Input     *)
(* text is a sequence of one-character strings.  Indices into arrays and   *)
(* into the input are 0-based, as in the source.                           *)
(***************************************************************************)
EXTENDS Integers, Sequences, FiniteSets, TLC

VARIABLES
    dict,                   \* every Dictionary object ever created, by identity
    heap,                   \* every array object ever created, by identity
    latest,                 \* `latest`: the newest named entry (0: undefined)
    doneDefiningCoreWords,  \* module flag of the same name
    coreWords,              \* `coreWords`: set of entries registered as core
    anonCount,              \* module counter of the same name
    ctxs,                   \* every Context object created by the host
    timers,                 \* pending setTimeout callbacks, in the order set
    listeners,              \* event listeners added to elements, in the order added
    clock,                  \* the host's time in milliseconds (Date.now())
    callStack,              \* active calls of query({ctx}), innermost last, each
                            \* with the context it runs and who called it
    phase,                  \* module evaluation: "boot", then "ready"
    pending                 \* scripts the host has still to run

vars == <<dict, heap, latest, doneDefiningCoreWords, coreWords, anonCount, ctxs,
          timers, listeners, clock, callStack, phase, pending>>

(***************************************************************************)
(* Values                                                                  *)
(***************************************************************************)
Num(n) == <<"num", n>>
Bool(b) == <<"bool", b>>
Str(s) == <<"str", s>>
Undef == <<"undefined">>
Null == <<"null">>
NaN == <<"nan">>
Arr(id) == <<"arr", id>>
DictRef(e) == <<"dict", e>>
\* the object pushed by `here`: {dictionaryEntry, i, getter, setter}
Loc(e, i) == <<"loc", e, i>>
\* the object pushed by a `var:` word: {getter, setter} over compiled[0]
Variable(e) == <<"var", e>>
\* functions (cells that executeColonDefinition calls instead of pushing)
Prim(name) == <<"prim", name>>
FnTags == {"prim", "docol", "compile", "varimpl", "constget", "constset",
           "eachguard", "eachprimer", "endeachimpl", "uncallable", "host", "wordfunc"}
IsCallable(v) == v[1] \in FnTags

IsNumber(v) == v[1] \in {"num", "nan"}

\* JavaScript truthiness: false, 0, "", null, undefined and NaN are falsy
Falsy(v) ==
    \/ v[1] \in {"undefined", "null", "nan"}
    \/ (v[1] = "bool" /\ ~v[2])
    \/ (v[1] = "num" /\ v[2] = 0)
    \/ (v[1] = "str" /\ v[2] = <<>>)

\* a === b
StrictEq(a, b) == a[1] = b[1] /\ a[1] # "nan" /\ a = b

IsPrimitiveValue(v) == v[1] \in {"num", "bool", "undefined", "null", "nan"}

\* ToNumber on the primitive values; NaN is <<"nan">>
ToNumber(v) ==
    CASE v[1] = "num" -> v
      [] v[1] = "bool" -> Num(IF v[2] THEN 1 ELSE 0)
      [] v[1] = "null" -> Num(0)
      [] OTHER -> NaN

Unmodelled == <<"unmodelled">>

\* a == b on primitive values
LooseEq(a, b) ==
    IF a[1] = b[1] THEN StrictEq(a, b)
    ELSE IF a[1] \in {"undefined", "null"} \/ b[1] \in {"undefined", "null"}
    THEN a[1] \in {"undefined", "null"} /\ b[1] \in {"undefined", "null"}
    ELSE StrictEq(ToNumber(a), ToNumber(b))

Arith(name, x, y) ==
    IF x[1] = "nan" \/ y[1] = "nan"
    THEN (IF name \in {"+", "-", "*", "/"} THEN NaN ELSE Bool(FALSE))
    ELSE CASE name = "+" -> Num(x[2] + y[2])
           [] name = "-" -> Num(x[2] - y[2])
           [] name = "*" -> Num(x[2] * y[2])
           [] name = "/" -> IF x[2] = 0 /\ y[2] = 0 THEN NaN
                            ELSE IF y[2] > 0 /\ x[2] % y[2] = 0 THEN Num(x[2] \div y[2])
                            ELSE Unmodelled
           [] name = "<" -> Bool(x[2] < y[2])
           [] name = ">" -> Bool(x[2] > y[2])
           [] name = "<=" -> Bool(x[2] <= y[2])
           [] name = ">=" -> Bool(x[2] >= y[2])

\* new Function("a", "b", `return a ${name} b;`), on the values modelled
binary(name, a, b) ==
    CASE name = "===" -> Bool(StrictEq(a, b))
      [] name = "&&" -> IF Falsy(a) THEN a ELSE b
      [] name = "||" -> IF Falsy(a) THEN b ELSE a
      [] name = "==" /\ IsPrimitiveValue(a) /\ IsPrimitiveValue(b) -> Bool(LooseEq(a, b))
      [] name \in {"+", "-", "*", "/", "<", ">", "<=", ">="}
            /\ IsPrimitiveValue(a) /\ IsPrimitiveValue(b) -> Arith(name, ToNumber(a), ToNumber(b))
      [] OTHER -> Unmodelled

(***************************************************************************)
(* Arrays (0-based)                                                        *)
(***************************************************************************)
\* array[i]: undefined outside the array
At(arr, i) == IF i >= 0 /\ i < Len(arr) THEN arr[i + 1] ELSE Undef

\* array[i] = v, for i >= 0: a store beyond the end leaves undefined holes
SetAt(arr, i, v) ==
    [k \in 1..(IF i + 1 > Len(arr) THEN i + 1 ELSE Len(arr)) |->
        IF k = i + 1 THEN v ELSE IF k <= Len(arr) THEN arr[k] ELSE Undef]

Last(s) == s[Len(s)]
Front(s) == SubSeq(s, 1, Len(s) - 1)

(***************************************************************************)
(* Text                                                                    *)
(***************************************************************************)
\* /\s/ on the characters modelled
IsSpace(ch) == ch \in {" ", "\n", "\t"}
Digits == <<"0", "1", "2", "3", "4", "5", "6", "7", "8", "9">>
IsDigit(ch) == \E d \in 1..10 : Digits[d] = ch
DigitValue(ch) == (CHOOSE d \in 1..10 : Digits[d] = ch) - 1

\* `until` is a one-character string, or one of the regular expressions
\* /\s/ and /\S/ written "\\s" and "\\S"
Matches(until, ch) ==
    CASE until = "\\s" -> IsSpace(ch)
      [] until = "\\S" -> ~IsSpace(ch)
      [] OTHER -> ch = until

Spell(s) ==
    CASE s = "swap" -> <<"s","w","a","p">>
      [] s = "over" -> <<"o","v","e","r">>
      [] s = "rot" -> <<"r","o","t">>
      [] s = "-rot" -> <<"-","r","o","t">>
      [] s = "dup" -> <<"d","u","p">>
      [] s = "2dup" -> <<"2","d","u","p">>
      [] s = "drop" -> <<"d","r","o","p">>
      [] s = "'" -> <<"'">>
      [] s = "log" -> <<"l","o","g">>
      [] s = ".s" -> <<".","s">>
      [] s = "typeof" -> <<"t","y","p","e","o","f">>
      [] s = "now" -> <<"n","o","w">>
      [] s = "&&" -> <<"&","&">>
      [] s = "||" -> <<"|","|">>
      [] s = "==" -> <<"=","=">>
      [] s = "===" -> <<"=","=","=">>
      [] s = "+" -> <<"+">>
      [] s = "-" -> <<"-">>
      [] s = "*" -> <<"*">>
      [] s = "/" -> <<"/">>
      [] s = "<" -> <<"<">>
      [] s = ">" -> <<">">>
      [] s = ">=" -> <<">","=">>
      [] s = "<=" -> <<"<","=">>
      [] s = "instanceof" -> <<"i","n","s","t","a","n","c","e","o","f">>
      [] s = "quit" -> <<"q","u","i","t">>
      [] s = "word" -> <<"w","o","r","d">>
      [] s = "find" -> <<"f","i","n","d">>
      [] s = "interpret" -> <<"i","n","t","e","r","p","r","e","t">>
      [] s = ":" -> <<":">>
      [] s = "exit" -> <<"e","x","i","t">>
      [] s = ";" -> <<";">>
      [] s = "postpone" -> <<"p","o","s","t","p","o","n","e">>
      [] s = "immediate" -> <<"i","m","m","e","d","i","a","t","e">>
      [] s = "," -> <<",">>
      [] s = "tick" -> <<"t","i","c","k">>
      [] s = "lit" -> <<"l","i","t">>
      [] s = "compileNow:" -> <<"c","o","m","p","i","l","e","N","o","w",":">>
      [] s = "latest" -> <<"l","a","t","e","s","t">>
      [] s = "here" -> <<"h","e","r","e">>
      [] s = "-stackFrame" -> <<"-","s","t","a","c","k","F","r","a","m","e">>
      [] s = "branch" -> <<"b","r","a","n","c","h">>
      [] s = "0branch" -> <<"0","b","r","a","n","c","h">>
      [] s = "falsyBranch" -> <<"f","a","l","s","y","B","r","a","n","c","h">>
      [] s = "var:" -> <<"v","a","r",":">>
      [] s = "!" -> <<"!">>
      [] s = "@" -> <<"@">>
      [] s = "const:" -> <<"c","o","n","s","t",":">>
      [] s = "sleep" -> <<"s","l","e","e","p">>
      [] s = "debugger" -> <<"d","e","b","u","g","g","e","r">>
      [] s = "'debugger" -> <<"'","d","e","b","u","g","g","e","r">>
      [] s = "(" -> <<"(">>
      [] s = "." -> <<".">>
      [] s = ".!" -> <<".","!">>
      [] s = "C" -> <<"C">>
      [] s = "throwNewError" -> <<"t","h","r","o","w","N","e","w","E","r","r","o","r">>
      [] s = "globalThis" -> <<"g","l","o","b","a","l","T","h","i","s">>
      [] s = "jsApply" -> <<"j","s","A","p","p","l","y">>
      [] s = "wordToFunc:" -> <<"w","o","r","d","T","o","F","u","n","c",":">>
      [] s = ".apply:" -> <<".","a","p","p","l","y",":">>
      [] s = "EXECUTE" -> <<"E","X","E","C","U","T","E">>
      [] s = "[]" -> <<"[","]">>
      [] s = "push" -> <<"p","u","s","h">>
      [] s = "collect" -> <<"c","o","l","l","e","c","t">>
      [] s = "spread" -> <<"s","p","r","e","a","d">>
      [] s = "[" -> <<"[">>
      [] s = "]" -> <<"]">>
      [] s = "pop" -> <<"p","o","p">>
      [] s = "{}" -> <<"{","}">>
      [] s = "first" -> <<"f","i","r","s","t">>
      [] s = "nth" -> <<"n","t","h">>
      [] s = "clone" -> <<"c","l","o","n","e">>
      [] s = ">control" -> <<">","c","o","n","t","r","o","l">>
      [] s = "control>" -> <<"c","o","n","t","r","o","l",">">>
      [] s = "each" -> <<"e","a","c","h">>
      [] s = "I" -> <<"I">>
      [] s = "endeach" -> <<"e","n","d","e","a","c","h">>
      [] s = "re/" -> <<"r","e","/">>
      [] s = "match" -> <<"m","a","t","c","h">>
      [] s = "match/" -> <<"m","a","t","c","h","/">>
      [] s = "ahead" -> <<"a","h","e","a","d">>
      [] s = "<back" -> <<"<","b","a","c","k">>
      [] s = "if" -> <<"i","f">>
      [] s = "endif" -> <<"e","n","d","i","f">>
      [] s = "else" -> <<"e","l","s","e">>
      [] s = "begin" -> <<"b","e","g","i","n">>
      [] s = "until" -> <<"u","n","t","i","l">>
      [] s = "again" -> <<"a","g","a","i","n">>
      [] s = "repeat" -> <<"r","e","p","e","a","t">>
      [] s = "m" -> <<"m">>
      [] s = "a" -> <<"a">>
      [] s = "b" -> <<"b">>
      [] s = "k" -> <<"k">>
      [] s = "w" -> <<"w">>
      [] s = "x" -> <<"x">>
      [] s = "y" -> <<"y">>
      [] s = "z" -> <<"z">>
      [] s = "v" -> <<"v">>
      [] s = "u" -> <<"u">>
      [] s = "count" -> <<"c","o","u","n","t">>
      [] s = "addall" -> <<"a","d","d","a","l","l">>
      [] s = "inner" -> <<"i","n","n","e","r">>
      [] s = "outer" -> <<"o","u","t","e","r">>
      [] s = "iffy" -> <<"i","f","f","y">>
      [] s = "0" -> <<"0">>
      [] s = "1" -> <<"1">>
      [] s = "2" -> <<"2">>
      [] s = "3" -> <<"3">>
      [] s = "4" -> <<"4">>
      [] s = "5" -> <<"5">>
      [] s = "6" -> <<"6">>
      [] s = "7" -> <<"7">>
      [] s = "8" -> <<"8">>
      [] s = "9" -> <<"9">>
      [] s = "10" -> <<"1","0">>
      [] s = "-1" -> <<"-","1">>
      [] s = "true" -> <<"t","r","u","e">>
      [] s = "false" -> <<"f","a","l","s","e">>
      [] s = "undefined" -> <<"u","n","d","e","f","i","n","e","d">>
      [] s = "anonymous-" -> <<"a","n","o","n","y","m","o","u","s","-">>
      [] s = "anonymous-on-" -> <<"a","n","o","n","y","m","o","u","s","-","o","n","-">>
      [] s = "-handler" -> <<"-","h","a","n","d","l","e","r">>
      [] s = "on" -> <<"o","n">>
      [] s = "click" -> <<"c","l","i","c","k">>
BootSource ==
    <<"\n"," "," ",":"," ","a","h","e","a","d"," "," "," "," "," "," "," "," "," "," "," "," "," ",
    " "," "," ","h","e","r","e"," ","0"," ",","," ",";","\n"," "," ",":"," ","<","b","a","c","k",
    " "," "," "," "," "," "," "," "," "," "," "," "," "," "," "," ","h","e","r","e"," ","-","s","t",
    "a","c","k","F","r","a","m","e"," ",","," ",";","\n"," "," ",":"," ","i","f"," "," "," "," ",
    " ","i","m","m","e","d","i","a","t","e"," "," "," "," "," ","p","o","s","t","p","o","n","e"," ",
    "f","a","l","s","y","B","r","a","n","c","h"," ","a","h","e","a","d"," ",";","\n"," "," ",":",
    " ","e","n","d","i","f"," "," ","i","m","m","e","d","i","a","t","e"," "," "," "," "," ","h","e",
    "r","e"," ","o","v","e","r"," ","-","s","t","a","c","k","F","r","a","m","e"," ","s","w","a","p",
    " ","!"," ",";","\n"," "," ",":"," ","e","l","s","e"," "," "," ","i","m","m","e","d","i","a",
    "t","e"," "," "," "," "," ","p","o","s","t","p","o","n","e"," ","b","r","a","n","c","h"," ","a",
    "h","e","a","d"," ","s","w","a","p"," ","p","o","s","t","p","o","n","e"," ","e","n","d","i","f",
    " ",";","\n"," "," ",":"," ","b","e","g","i","n"," "," ","i","m","m","e","d","i","a","t","e",
    " "," "," "," "," ","h","e","r","e"," ",";","\n"," "," ",":"," ","u","n","t","i","l"," "," ",
    "i","m","m","e","d","i","a","t","e"," "," "," "," "," ","p","o","s","t","p","o","n","e"," ","f",
    "a","l","s","y","B","r","a","n","c","h"," ","<","b","a","c","k"," ",";","\n"," "," ",":"," ",
    "a","g","a","i","n"," "," ","i","m","m","e","d","i","a","t","e"," "," "," "," "," ","p","o","s",
    "t","p","o","n","e"," ","b","r","a","n","c","h"," ","<","b","a","c","k"," ",";","\n"," "," ",
    ":"," ","r","e","p","e","a","t"," ","i","m","m","e","d","i","a","t","e"," "," "," "," "," ","p",
    "o","s","t","p","o","n","e"," ","a","g","a","i","n"," ","p","o","s","t","p","o","n","e"," ","e",
    "n","d","i","f"," ",";","\n"," ">>


\* the spelling of a word of a script, character by character
SpellAll(names) == [k \in 1..Len(names) |-> Spell(names[k])]

RECURSIVE Join(_)
\* the words of a script separated by single spaces
Join(words) ==
    IF words = <<>> THEN <<>>
    ELSE IF Len(words) = 1 THEN words[1]
    ELSE words[1] \o <<" ">> \o Join(Tail(words))

Source(names) == Join(SpellAll(names))

\* String.prototype.slice(a, b) for 0 <= a and b <= length
Slice(s, a, b) == IF a >= b THEN <<>> ELSE SubSeq(s, a + 1, b)

RECURSIVE ScanTo(_, _, _)
\* the loop of `consume`: the first index >= p whose character matches
\* `until`, or the end of the input
ScanTo(input, p, until) ==
    IF p < Len(input) /\ ~Matches(until, input[p + 1])
    THEN ScanTo(input, p + 1, until)
    ELSE p

RECURSIVE StripEscapes_Any(_)
\* a replacement that also takes a backslash followed by a backslash
StripEscapes_Any(s) ==
    IF s = <<>> THEN <<>>
    ELSE IF s[1] = "\\" /\ Len(s) >= 2
    THEN <<s[2]>> \o StripEscapes_Any(SubSeq(s, 3, Len(s)))
    ELSE <<s[1]>> \o StripEscapes_Any(Tail(s))

RECURSIVE StripEscapes(_)
\* value.replaceAll(/\\([^\\])/g, (_, c) => c)
StripEscapes(s) ==
    IF s = <<>> THEN <<>>
    ELSE IF s[1] = "\\" /\ Len(s) >= 2 /\ s[2] # "\\"
    THEN <<s[2]>> \o StripEscapes(SubSeq(s, 3, Len(s)))
    ELSE <<s[1]>> \o StripEscapes(Tail(s))

AllDigits(s) == s # <<>> /\ \A k \in 1..Len(s) : IsDigit(s[k])

RECURSIVE DigitsValue(_)
DigitsValue(s) ==
    IF s = <<>> THEN 0 ELSE 10 * DigitsValue(Front(s)) + DigitValue(Last(s))

Unsigned(word) == IF word # <<>> /\ word[1] = "-" THEN Tail(word) ELSE word
Signed(word, n) == IF word # <<>> /\ word[1] = "-" THEN 0 - n ELSE n

\* /^-?\d+$/
IsIntegerWord(word) == AllDigits(Unsigned(word))

DotAt(s) == CHOOSE k \in 1..Len(s) : s[k] = "."

\* /^-?\d+(\.\d+)?$/ for a word that is no integer word
IsFloatWord(word) ==
    LET u == Unsigned(word) IN
    /\ \E k \in 1..Len(u) : u[k] = "."
    /\ AllDigits(SubSeq(u, 1, DotAt(u) - 1))
    /\ AllDigits(SubSeq(u, DotAt(u) + 1, Len(u)))

RECURSIVE StripZeros(_)
StripZeros(s) == IF s # <<>> /\ Last(s) = "0" THEN StripZeros(Front(s)) ELSE s

\* parseFloat: a whole number is that number; any other is kept as its sign,
\* integer part and fraction digits
FloatValue(word) ==
    LET u == Unsigned(word)
        whole == DigitsValue(SubSeq(u, 1, DotAt(u) - 1))
        frac == StripZeros(SubSeq(u, DotAt(u) + 1, Len(u)))
    IN  IF frac = <<>> THEN Num(Signed(word, whole))
        ELSE <<"float", word[1] = "-", whole, frac>>

\* a wordAsPrimitive that drops the sign of an integer
wordAsPrimitive_Unsigned(word) ==
    IF IsIntegerWord(word)
    THEN [isPrimitive |-> TRUE, value |-> Num(DigitsValue(Unsigned(word)))]
    ELSE IF IsFloatWord(word)
    THEN [isPrimitive |-> TRUE, value |-> FloatValue(word)]
    ELSE IF word = Spell("true") THEN [isPrimitive |-> TRUE, value |-> Bool(TRUE)]
    ELSE IF word = Spell("false") THEN [isPrimitive |-> TRUE, value |-> Bool(FALSE)]
    ELSE IF word = Spell("undefined") THEN [isPrimitive |-> TRUE, value |-> Undef]
    ELSE [isPrimitive |-> FALSE, value |-> Undef]

\* the result {isPrimitive, value} of wordAsPrimitive
wordAsPrimitive(word) ==
    IF IsIntegerWord(word)
    THEN [isPrimitive |-> TRUE, value |-> Num(Signed(word, DigitsValue(Unsigned(word))))]
    ELSE IF IsFloatWord(word)
    THEN [isPrimitive |-> TRUE, value |-> FloatValue(word)]
    ELSE IF word = Spell("true") THEN [isPrimitive |-> TRUE, value |-> Bool(TRUE)]
    ELSE IF word = Spell("false") THEN [isPrimitive |-> TRUE, value |-> Bool(FALSE)]
    ELSE IF word = Spell("undefined") THEN [isPrimitive |-> TRUE, value |-> Undef]
    ELSE [isPrimitive |-> FALSE, value |-> Undef]

(***************************************************************************)
(* The world: the module state and every context, as one record `w` that   *)
(* the operations below transform.  `exc` is the exception in flight.      *)
(***************************************************************************)
Throw(w, msg) == [w EXCEPT !.exc = msg]
Failed(w) == w.exc # ""

StackUnderflow == "Stack underflow"
ReturnStackUnderflow == "Return stack underflow"
CompilationStackUnderflow == "Compilation stack underflow"

\* a new array object; its identity is NewArrayId(w)
NewArrayId(w) == Len(w.heap) + 1
NewArray(w, elems) == [w EXCEPT !.heap = Append(@, elems)]

\* the identity of the entry the next call of define creates
NewEntryId(w) == Len(w.dict) + 1

RECURSIVE NatChars(_)
\* String(n)
NatChars(n) == IF n < 10 THEN <<Digits[n + 1]>> ELSE NatChars(n \div 10) \o <<Digits[(n % 10) + 1]>>

\* a define that makes every entry the latest, the anonymous ones too
define_AlwaysLatest(w, name, impl, isImmediate) ==
    LET chars == IF name = Undef THEN Spell("anonymous-") \o NatChars(w.anonCount) ELSE name[2]
        e == NewEntryId(w)
        w1 == [NewArray(w, <<>>) EXCEPT
                 !.anonCount = IF name = Undef THEN @ + 1 ELSE @,
                 !.latest = e,
                 !.dict = Append(@, [previous |-> w.latest, name |-> chars, impl |-> impl,
                                     isImmediate |-> isImmediate, compiled |-> NewArrayId(w)])]
    IN  IF Falsy(name) \/ w.doneDefiningCoreWords THEN w1
        ELSE [w1 EXCEPT !.coreWords = @ \cup {e}]

\* define({name, impl, isImmediate}); `name` is Str(..) or Undef (absent)
define(w, name, impl, isImmediate) ==
    LET isAnonymous == Falsy(name)
        chars == IF name = Undef THEN Spell("anonymous-") \o NatChars(w.anonCount) ELSE name[2]
        e == NewEntryId(w)
        w1 == [NewArray(w, <<>>) EXCEPT
                 !.anonCount = IF name = Undef THEN @ + 1 ELSE @,
                 !.dict = Append(@, [previous |-> w.latest, name |-> chars, impl |-> impl,
                                     isImmediate |-> isImmediate, compiled |-> NewArrayId(w)])]
    IN  IF isAnonymous THEN w1
        ELSE IF ~w.doneDefiningCoreWords
        THEN IF \E k \in w.coreWords : w.dict[k].name = chars
             THEN Throw([w1 EXCEPT !.latest = e], "Redefining core word")
             ELSE [w1 EXCEPT !.latest = e, !.coreWords = @ \cup {e}]
        ELSE [w1 EXCEPT !.latest = e]

\* coreWordImpl(name)
coreWordImpl(w, name) ==
    w.dict[CHOOSE k \in w.coreWords : w.dict[k].name = Spell(name)].impl

\* dictionaryEntry.compiled, the array itself
Compiled(w, e) == w.heap[w.dict[e].compiled]

\* what the model keeps as `returned` for a context that no callable made
NotCalled == <<"none">>

\* newCtx(); the new context is NewCtxId(w).  `compilationTarget` is the
\* property the browser word `on` reads and writes, undefined (0) on a new
\* context.  Some fields are the model's
\* record of what happened to the context, not fields of Context: `error` is
\* the message of the exception thrown out of query, `base` the entry newCtx
\* created, `returned` the value the callable of wordToFunc: that made the
\* context has returned, `trace` the cells executeColonDefinition ran (see there), and
\* `emitted` collects the arguments of ctx.emit
NewCtxId(w) == Len(w.ctxs) + 1
newCtx(w) ==
    LET w1 == define(w, Undef, <<"uncallable">>, FALSE) IN
    [w1 EXCEPT !.ctxs = Append(@, [
        me |-> Null,
        compilationTarget |-> 0,
        parameterStack |-> <<>>,
        returnStack |-> <<>>,
        compilationStack |-> <<NewEntryId(w)>>,
        controlStack |-> <<>>,
        inputStream |-> <<>>,
        executeAtEnd |-> TRUE,
        didExecuteAndEnd |-> FALSE,
        paused |-> FALSE,
        halted |-> FALSE,
        haltedPromise |-> "pending",
        inputStreamPointer |-> 0,
        emitted |-> <<>>,
        error |-> "",
        returned |-> NotCalled,
        base |-> NewEntryId(w),
        trace |-> <<>>])]

(***************************************************************************)
(* Context methods                                                         *)
(***************************************************************************)
Stack(w, c) == w.ctxs[c].parameterStack
Depth(w, c) == Len(w.ctxs[c].parameterStack)

\* the value n places from the top of the parameter stack (1: the top)
Top(w, c, n) == Stack(w, c)[Depth(w, c) + 1 - n]

\* ctx.push(...values)
ctxPush(w, c, values) == [w EXCEPT !.ctxs[c].parameterStack = @ \o values]

\* ctx.peek(): at(-1), undefined for the empty stack
ctxPeek(w, c) == IF Depth(w, c) = 0 THEN Undef ELSE Top(w, c, 1)

\* n calls of ctx.pop() in a row: the values are Top(w, c, 1..n); with fewer
\* than n values the calls that succeed empty the stack and the next throws
ctxPop(w, c, n) ==
    IF Depth(w, c) < n
    THEN Throw([w EXCEPT !.ctxs[c].parameterStack = <<>>], StackUnderflow)
    ELSE [w EXCEPT !.ctxs[c].parameterStack = SubSeq(@, 1, Len(@) - n)]

\* ctx.peekReturnStack() throws on the empty return stack
EmptySlot == [dictionaryEntry |-> 0, i |-> 0]
HasFrame(w, c) ==
    w.ctxs[c].returnStack # <<>> /\ Last(w.ctxs[c].returnStack) # EmptySlot
peekReturnStack(w, c) == Last(w.ctxs[c].returnStack)

\* ctx.advanceCurrentFrame(value)
advanceCurrentFrame(w, c, value) ==
    IF ~HasFrame(w, c) THEN Throw(w, ReturnStackUnderflow)
    ELSE [w EXCEPT !.ctxs[c].returnStack[Len(w.ctxs[c].returnStack)].i = @ + value]

\* ctx.peekCompilationStack() throws when at(-1) is no entry: on the empty
\* stack, and on the empty slot (0) that `length = 1` makes of an empty stack
HasTarget(w, c) ==
    w.ctxs[c].compilationStack # <<>> /\ Last(w.ctxs[c].compilationStack) # 0
peekCompilationStack(w, c) == Last(w.ctxs[c].compilationStack)

\* ctx.popCompilationStack(): the pop happens, then the check of what it gave
popCompilationStack(w, c) ==
    IF w.ctxs[c].compilationStack = <<>> THEN Throw(w, CompilationStackUnderflow)
    ELSE IF ~HasTarget(w, c)
    THEN Throw([w EXCEPT !.ctxs[c].compilationStack = Front(@)], CompilationStackUnderflow)
    ELSE [w EXCEPT !.ctxs[c].compilationStack = Front(@)]

\* a halt that forgets to resolve the promise
halt_Unresolved(w, c) == [w EXCEPT !.ctxs[c].halted = TRUE]

\* ctx.halt()
halt(w, c) == [w EXCEPT !.ctxs[c].halted = TRUE, !.ctxs[c].haltedPromise = "resolved"]

\* compile({ctx, value})
compile(w, c, value) ==
    IF ~HasTarget(w, c) THEN Throw(w, CompilationStackUnderflow)
    ELSE [w EXCEPT !.heap[w.dict[peekCompilationStack(w, c)].compiled] = Append(@, value)]

\* consume({until, including, ctx, ignoreLeadingWhitespace}): where the slice
\* starts and ends, the string returned, and the context afterwards
consumeStart(w, c, ignoreLeadingWhitespace) ==
    IF ignoreLeadingWhitespace
    THEN ScanTo(w.ctxs[c].inputStream, w.ctxs[c].inputStreamPointer, "\\S")
    ELSE w.ctxs[c].inputStreamPointer
consumeEnd(w, c, until, ignoreLeadingWhitespace) ==
    ScanTo(w.ctxs[c].inputStream, consumeStart(w, c, ignoreLeadingWhitespace), until)
consumed(w, c, until, ignoreLeadingWhitespace) ==
    StripEscapes(Slice(w.ctxs[c].inputStream,
                       consumeStart(w, c, ignoreLeadingWhitespace),
                       consumeEnd(w, c, until, ignoreLeadingWhitespace)))
consume(w, c, until, including, ignoreLeadingWhitespace) ==
    [w EXCEPT !.ctxs[c].inputStreamPointer =
        consumeEnd(w, c, until, ignoreLeadingWhitespace) + (IF including THEN 1 ELSE 0)]

(***************************************************************************)
(* Primitive words.  Each operator is the `impl` of the word named in its  *)
(* comment, applied to context c.                                          *)
(***************************************************************************)
\* swap
swap(w, c) ==
    LET w1 == ctxPop(w, c, 2) IN
    IF Failed(w1) THEN w1 ELSE ctxPush(w1, c, <<Top(w, c, 1), Top(w, c, 2)>>)

\* over
over(w, c) ==
    LET w1 == ctxPop(w, c, 2) IN
    IF Failed(w1) THEN w1 ELSE ctxPush(w1, c, <<Top(w, c, 2), Top(w, c, 1), Top(w, c, 2)>>)

\* rot
rot(w, c) ==
    LET w1 == ctxPop(w, c, 3) IN
    IF Failed(w1) THEN w1 ELSE ctxPush(w1, c, <<Top(w, c, 2), Top(w, c, 1), Top(w, c, 3)>>)

\* -rot
minusRot(w, c) ==
    LET w1 == ctxPop(w, c, 3) IN
    IF Failed(w1) THEN w1 ELSE ctxPush(w1, c, <<Top(w, c, 1), Top(w, c, 3), Top(w, c, 2)>>)

\* dup
dup(w, c) == ctxPush(w, c, <<ctxPeek(w, c)>>)

\* 2dup
twoDup(w, c) ==
    LET w1 == ctxPop(w, c, 2) IN
    IF Failed(w1) THEN w1
    ELSE ctxPush(w1, c, <<Top(w, c, 2), Top(w, c, 1), Top(w, c, 2), Top(w, c, 1)>>)

\* drop
drop(w, c) == ctxPop(w, c, 1)

\* ' (a string literal up to the next quote)
quote(w, c) ==
    LET w1 == [w EXCEPT !.ctxs[c].inputStreamPointer = @ + 1] IN
    compile(consume(w1, c, "'", TRUE, FALSE), c, Str(consumed(w1, c, "'", FALSE)))

\* log
log(w, c) ==
    LET w1 == ctxPop(w, c, 1) IN
    IF Failed(w1) THEN w1 ELSE [w1 EXCEPT !.ctxs[c].emitted = Append(@, Top(w, c, 1))]

\* now
now(w, c) == ctxPush(w, c, <<Num(w.clock)>>)

BinaryNames == {"&&", "||", "==", "===", "+", "-", "*", "/", "<", ">", ">=", "<="}

\* the words made by defineBinaryExactlyAsInJS({name})
defineBinaryExactlyAsInJS(name, w, c) ==
    LET w1 == ctxPop(w, c, 2)
        r == binary(name, Top(w, c, 2), Top(w, c, 1))
    IN  IF Failed(w1) THEN w1
        ELSE IF r = Unmodelled THEN Throw(w1, "unmodelled")
        ELSE ctxPush(w1, c, <<r>>)

\* a word that also consumes the whitespace character after the word
word_Including(w, c) ==
    ctxPush(consume(w, c, "\\s", TRUE, TRUE), c, <<Str(consumed(w, c, "\\s", TRUE))>>)

\* word
word(w, c) ==
    ctxPush(consume(w, c, "\\s", FALSE, TRUE), c, <<Str(consumed(w, c, "\\s", TRUE))>>)

\* a search that gives the oldest entry of the name
Lookup_Oldest(w, e, name) ==
    LET named == {d \in 1..e : w.dict[d].name = name} IN
    IF named = {} THEN 0 ELSE CHOOSE d \in named : \A o \in named : d <= o

RECURSIVE Lookup(_, _, _)
\* the loop of `find`: the first entry from e backwards whose name is `name`
Lookup(w, e, name) ==
    IF e = 0 THEN 0
    ELSE IF w.dict[e].name = name THEN e
    ELSE Lookup(w, w.dict[e].previous, name)

\* find
find(w, c) ==
    LET w1 == ctxPop(w, c, 1)
        e == Lookup(w, w.latest, Top(w, c, 1)[2])
    IN  IF Failed(w1) THEN w1
        ELSE IF Top(w, c, 1)[1] # "str" THEN Throw(w1, "unmodelled")
        ELSE ctxPush(w1, c, <<IF e = 0 THEN Undef ELSE DictRef(e)>>)

\* EXECUTE
EXECUTE(w, c) ==
    IF ~HasTarget(w, c) THEN Throw(w, CompilationStackUnderflow)
    ELSE [w EXCEPT !.ctxs[c].returnStack =
            Append(@, [dictionaryEntry |-> peekCompilationStack(w, c), i |-> 0])]

RECURSIVE Call(_, _, _)

\* interpret
interpret(w, c) ==
    LET ctx == w.ctxs[c]
        w1 == word(w, c)
        text == ctxPeek(w1, c)[2]
        w2 == find(w1, c)
        found == ctxPeek(w2, c)
        w3 == ctxPop(w2, c, 1)
        primitiveMaybe == wordAsPrimitive(text)
    IN  IF ctx.inputStreamPointer >= Len(ctx.inputStream)
        THEN IF ctx.executeAtEnd /\ ~ctx.didExecuteAndEnd
             THEN EXECUTE([w EXCEPT !.ctxs[c].didExecuteAndEnd = TRUE,
                                    !.ctxs[c].compilationStack =
                                        IF @ = <<>> THEN <<0>> ELSE SubSeq(@, 1, 1)], c)
             ELSE halt(w, c)
        ELSE IF \A k \in 1..Len(text) : IsSpace(text[k])
        THEN ctxPop(w1, c, 1)
        ELSE IF found = Undef
        THEN IF primitiveMaybe.isPrimitive
             THEN compile(w3, c, primitiveMaybe.value)
             ELSE Throw(w3, "Could not comprehend word")
        ELSE IF w.dict[found[2]].isImmediate
        THEN Call(w.dict[found[2]].impl, w3, c)
        ELSE compile(w3, c, w.dict[found[2]].impl)

\* a quit that truncates the return stack and does not call interpret
quit_TruncateOnly(w, c) ==
    [w EXCEPT !.ctxs[c].returnStack = IF @ = <<>> THEN <<EmptySlot>> ELSE SubSeq(@, 1, 1)]

\* quit: `returnStack.length = 1` leaves an empty slot in an empty array
quit(w, c) ==
    interpret([w EXCEPT !.ctxs[c].returnStack =
                 IF @ = <<>> THEN <<EmptySlot>> ELSE SubSeq(@, 1, 1)], c)

\* : (the impl of the new word is <<"docol", entry>>)
colon(w, c) ==
    LET w1 == word(w, c)
        name == ctxPeek(w1, c)
        w2 == define(ctxPop(w1, c, 1), name, <<"docol", NewEntryId(w)>>, FALSE)
    IN  IF Failed(w2) THEN w2
        ELSE [w2 EXCEPT !.ctxs[c].compilationStack = Append(@, NewEntryId(w))]

\* a DOCOL that starts the definition at its second cell
docol_SkipFirst(e, w, c) ==
    [w EXCEPT !.ctxs[c].returnStack = Append(@, [dictionaryEntry |-> e, i |-> 1])]

\* a DOCOL that puts the new frame in the place of the frame of the caller
docol_Replace(e, w, c) ==
    [w EXCEPT !.ctxs[c].returnStack = Front(@) \o <<[dictionaryEntry |-> e, i |-> 0]>>]

\* the impl of a colon definition ("DOCOL")
docol(e, w, c) ==
    [w EXCEPT !.ctxs[c].returnStack = Append(@, [dictionaryEntry |-> e, i |-> 0])]

\* exit
exit(w, c) == [w EXCEPT !.ctxs[c].returnStack = IF @ = <<>> THEN @ ELSE Front(@)]

\* ;
semicolon(w, c) == popCompilationStack(w, c)

\* the function postpone compiles for a word that is not immediate
compileLater(impl, w, c) == compile(w, c, impl)

\* a postpone that compiles the word itself, immediate or not
postpone_Direct(w, c) ==
    LET w1 == find(word(w, c), c)
        found == ctxPeek(w1, c)
        w2 == ctxPop(w1, c, 1)
    IN  IF found = Undef THEN Throw(w2, "TypeError")
        ELSE compile(w2, c, w.dict[found[2]].impl)

\* postpone
postpone(w, c) ==
    LET w1 == find(word(w, c), c)
        found == ctxPeek(w1, c)
        w2 == ctxPop(w1, c, 1)
    IN  IF found = Undef THEN Throw(w2, "TypeError")
        ELSE IF w.dict[found[2]].isImmediate
        THEN compile(w2, c, w.dict[found[2]].impl)
        ELSE compile(w2, c, <<"compile", w.dict[found[2]].impl>>)

\* an `immediate` that leaves the flag alone
immediate_Unmarked(w, c) ==
    IF ~HasTarget(w, c) THEN Throw(w, CompilationStackUnderflow) ELSE w

\* immediate
immediate(w, c) ==
    IF ~HasTarget(w, c) THEN Throw(w, CompilationStackUnderflow)
    ELSE [w EXCEPT !.dict[peekCompilationStack(w, c)].isImmediate = TRUE]

\* ,
comma(w, c) ==
    LET w1 == ctxPop(w, c, 1) IN
    IF Failed(w1) THEN w1 ELSE compile(w1, c, Top(w, c, 1))

\* the cell compiled[i] of the executing frame
FrameCell(w, c) ==
    At(Compiled(w, peekReturnStack(w, c).dictionaryEntry), peekReturnStack(w, c).i)

\* tick
tick(w, c) ==
    IF ~HasFrame(w, c) THEN Throw(w, ReturnStackUnderflow)
    ELSE IF ~IsCallable(FrameCell(w, c)) THEN Throw(w, "tick must be followed by a word")
    ELSE advanceCurrentFrame(ctxPush(w, c, <<FrameCell(w, c)>>), c, 1)

\* a lit that pushes the cell and leaves the frame standing at it
lit_NoAdvance(w, c) ==
    IF ~HasFrame(w, c) THEN Throw(w, ReturnStackUnderflow)
    ELSE ctxPush(w, c, <<FrameCell(w, c)>>)

\* lit
lit(w, c) ==
    IF ~HasFrame(w, c) THEN Throw(w, ReturnStackUnderflow)
    ELSE advanceCurrentFrame(ctxPush(w, c, <<FrameCell(w, c)>>), c, 1)

\* compileNow:
compileNow(w, c) ==
    LET w1 == word(w, c)
        primitiveMaybe == wordAsPrimitive(ctxPeek(w1, c)[2])
    IN  IF ~primitiveMaybe.isPrimitive
        THEN Throw(ctxPop(w1, c, 1), "compileNow: must be followed by a primitive")
        ELSE compile(ctxPop(w1, c, 1), c, primitiveMaybe.value)

\* latest
latestWord(w, c) == ctxPush(w, c, <<IF w.latest = 0 THEN Undef ELSE DictRef(w.latest)>>)

\* here
here(w, c) ==
    IF ~HasTarget(w, c) THEN Throw(w, CompilationStackUnderflow)
    ELSE ctxPush(w, c, <<Loc(peekCompilationStack(w, c),
                             Len(Compiled(w, peekCompilationStack(w, c))))>>)

BadStackFrame == "-stackFrame requires two stackFrame parameters"
BadStackFrameEntries == "-stackFrame across different dictionary entries not supported"

\* a -stackFrame that subtracts the other way round
minusStackFrame_Reversed(w, c) ==
    LET w1 == ctxPop(w, c, 2)
        b == Top(w, c, 1)
        a == Top(w, c, 2)
    IN  IF Failed(w1) THEN w1
        ELSE IF a[1] # "loc" \/ b[1] # "loc" THEN Throw(w1, BadStackFrame)
        ELSE IF a[2] # b[2] THEN Throw(w1, BadStackFrameEntries)
        ELSE ctxPush(w1, c, <<Num(b[3] - a[3])>>)

\* a -stackFrame that subtracts locations of different entries too
minusStackFrame_AnyEntry(w, c) ==
    LET w1 == ctxPop(w, c, 2)
        b == Top(w, c, 1)
        a == Top(w, c, 2)
    IN  IF Failed(w1) THEN w1
        ELSE IF a[1] # "loc" \/ b[1] # "loc" THEN Throw(w1, BadStackFrame)
        ELSE ctxPush(w1, c, <<Num(a[3] - b[3])>>)

\* -stackFrame
minusStackFrame(w, c) ==
    LET w1 == ctxPop(w, c, 2)
        b == Top(w, c, 1)
        a == Top(w, c, 2)
    IN  IF Failed(w1) THEN w1
        ELSE IF a[1] # "loc" \/ b[1] # "loc" THEN Throw(w1, BadStackFrame)
        ELSE IF a[2] # b[2] THEN Throw(w1, BadStackFrameEntries)
        ELSE ctxPush(w1, c, <<Num(a[3] - b[3])>>)

BadBranch == "branch must be followed by a number"
BadZeroBranch == "0branch must be followed by a number"
BadStackForZeroBranch == "0branch found a non-number on the stack"
BadFalsyBranch == "falsyBranch must be followed by a number"

\* typeof v === "number" && !Number.isNaN(v)
IsFiniteNumber(v) == v[1] \in {"num", "float"}

\* ctx.advanceCurrentFrame(offset) for an offset cell that passed the check
Jump(w, c, offset) ==
    IF offset[1] = "float" THEN Throw(w, "unmodelled")
    ELSE advanceCurrentFrame(w, c, offset[2])

\* branch
branch(w, c) ==
    IF ~HasFrame(w, c) THEN Throw(w, ReturnStackUnderflow)
    ELSE IF ~IsFiniteNumber(FrameCell(w, c)) THEN Throw(w, BadBranch)
    ELSE Jump(w, c, FrameCell(w, c))

\* a 0branch that checks the offset cell before the condition
zeroBranch_OffsetFirst(w, c) ==
    LET w1 == ctxPop(w, c, 1) IN
    IF ~HasFrame(w, c) THEN Throw(w, ReturnStackUnderflow)
    ELSE IF Failed(w1) THEN w1
    ELSE IF ~IsFiniteNumber(FrameCell(w, c)) THEN Throw(w1, BadZeroBranch)
    ELSE IF ~IsFiniteNumber(Top(w, c, 1)) THEN Throw(w1, BadStackForZeroBranch)
    ELSE IF Top(w, c, 1) = Num(0) THEN Jump(w1, c, FrameCell(w, c))
    ELSE advanceCurrentFrame(w1, c, 1)

\* a 0branch that jumps on every number that is not positive
zeroBranch_NonPositive(w, c) ==
    LET w1 == ctxPop(w, c, 1) IN
    IF ~HasFrame(w, c) THEN Throw(w, ReturnStackUnderflow)
    ELSE IF Failed(w1) THEN w1
    ELSE IF ~IsFiniteNumber(Top(w, c, 1)) THEN Throw(w1, BadStackForZeroBranch)
    ELSE IF ~IsFiniteNumber(FrameCell(w, c)) THEN Throw(w1, BadZeroBranch)
    ELSE IF Top(w, c, 1)[1] = "num" /\ Top(w, c, 1)[2] <= 0 THEN Jump(w1, c, FrameCell(w, c))
    ELSE advanceCurrentFrame(w1, c, 1)

\* 0branch
zeroBranch(w, c) ==
    LET w1 == ctxPop(w, c, 1) IN
    IF ~HasFrame(w, c) THEN Throw(w, ReturnStackUnderflow)
    ELSE IF Failed(w1) THEN w1
    ELSE IF ~IsFiniteNumber(Top(w, c, 1)) THEN Throw(w1, BadStackForZeroBranch)
    ELSE IF ~IsFiniteNumber(FrameCell(w, c)) THEN Throw(w1, BadZeroBranch)
    ELSE IF Top(w, c, 1) = Num(0) THEN Jump(w1, c, FrameCell(w, c))
    ELSE advanceCurrentFrame(w1, c, 1)

\* a falsyBranch that never jumps
falsyBranch_Straight(w, c) ==
    LET w1 == ctxPop(w, c, 1) IN
    IF ~HasFrame(w, c) THEN Throw(w, ReturnStackUnderflow)
    ELSE IF Failed(w1) THEN w1
    ELSE IF ~IsFiniteNumber(FrameCell(w, c)) THEN Throw(w1, BadFalsyBranch)
    ELSE advanceCurrentFrame(w1, c, 1)

\* a falsyBranch that jumps when the condition is truthy
falsyBranch_Inverted(w, c) ==
    LET w1 == ctxPop(w, c, 1) IN
    IF ~HasFrame(w, c) THEN Throw(w, ReturnStackUnderflow)
    ELSE IF Failed(w1) THEN w1
    ELSE IF ~IsFiniteNumber(FrameCell(w, c)) THEN Throw(w1, BadFalsyBranch)
    ELSE IF ~Falsy(Top(w, c, 1)) THEN Jump(w1, c, FrameCell(w, c))
    ELSE advanceCurrentFrame(w1, c, 1)

\* falsyBranch
falsyBranch(w, c) ==
    LET w1 == ctxPop(w, c, 1) IN
    IF ~HasFrame(w, c) THEN Throw(w, ReturnStackUnderflow)
    ELSE IF Failed(w1) THEN w1
    ELSE IF ~IsFiniteNumber(FrameCell(w, c)) THEN Throw(w1, BadFalsyBranch)
    ELSE IF Falsy(Top(w, c, 1)) THEN Jump(w1, c, FrameCell(w, c))
    ELSE advanceCurrentFrame(w1, c, 1)

\* var: (the impl of the new word is <<"varimpl", entry>>)
varColon(w, c) ==
    LET w1 == word(w, c) IN
    define(ctxPop(w1, c, 1), ctxPeek(w1, c), <<"varimpl", NewEntryId(w)>>, FALSE)

\* a variable word bound to the slot of the newest entry instead of its own
varimpl_Latest(e, w, c) == ctxPush(w, c, <<Variable(w.latest)>>)

\* the impl of a word defined by var:
varimpl(e, w, c) == ctxPush(w, c, <<Variable(e)>>)

\* where the getter and setter of a variable token read and write
HasAccessors(v) == v[1] \in {"var", "loc"}
SlotArray(w, v) == w.dict[v[2]].compiled
SlotIndex(v) == IF v[1] = "var" THEN 0 ELSE v[3]

\* !
store(w, c) ==
    LET w1 == ctxPop(w, c, 2)
        b == Top(w, c, 1)
        a == Top(w, c, 2)
    IN  IF Failed(w1) THEN w1
        ELSE IF b[1] \in {"undefined", "null"} THEN Throw(w1, "TypeError")
        ELSE IF ~HasAccessors(b) THEN Throw(w1, "Can only use word ! on a variable")
        ELSE IF SlotIndex(b) < 0 THEN Throw(w1, "unmodelled")
        ELSE [w1 EXCEPT !.heap[SlotArray(w, b)] = SetAt(@, SlotIndex(b), a)]

\* @
fetch(w, c) ==
    LET w1 == ctxPop(w, c, 1)
        a == Top(w, c, 1)
    IN  IF Failed(w1) THEN w1
        ELSE IF a[1] \in {"undefined", "null"} THEN Throw(w1, "TypeError")
        ELSE IF ~HasAccessors(a) THEN Throw(w1, "Can only use word @ on a variable")
        ELSE ctxPush(w1, c, <<At(w.heap[SlotArray(w, a)], SlotIndex(a))>>)

\* const: (the closure variable `value` is a one-element array of its own)
constColon(w, c) ==
    LET w1 == word(w, c)
        w2 == NewArray(ctxPop(w1, c, 1), <<Undef>>)
        w3 == define(w2, ctxPeek(w1, c), <<"constget", NewArrayId(w)>>, FALSE)
    IN  IF Failed(w3) THEN w3 ELSE compile(w3, c, <<"constset", NewArrayId(w)>>)

\* the impl of a word defined by const:, and the function const: compiles
constget(slot, w, c) == ctxPush(w, c, <<w.heap[slot][1]>>)
constset(slot, w, c) ==
    LET w1 == ctxPop(w, c, 1) IN
    IF Failed(w1) THEN w1 ELSE [w1 EXCEPT !.heap[slot] = <<Top(w, c, 1)>>]

\* the delay setTimeout uses for `millis`
Delay(millis) ==
    IF ToNumber(millis)[1] = "num" /\ ToNumber(millis)[2] > 0 THEN ToNumber(millis)[2] ELSE 0

\* sleep without `ctx.paused = true`
sleep_NoPause(w, c) ==
    LET w1 == ctxPop(w, c, 1) IN
    IF Failed(w1) THEN w1
    ELSE [w1 EXCEPT !.timers = Append(@, [ctx |-> c, due |-> w.clock + Delay(Top(w, c, 1))])]

\* sleep
sleep(w, c) ==
    LET w1 == ctxPop(w, c, 1) IN
    IF Failed(w1) THEN w1
    ELSE [w1 EXCEPT !.ctxs[c].paused = TRUE,
                    !.timers = Append(@, [ctx |-> c, due |-> w.clock + Delay(Top(w, c, 1))])]

\* []
emptyArray(w, c) == ctxPush(NewArray(w, <<>>), c, <<Arr(NewArrayId(w))>>)

\* push
push(w, c) ==
    LET w1 == ctxPop(w, c, 2)
        item == Top(w, c, 1)
        array == Top(w, c, 2)
    IN  IF Failed(w1) THEN w1
        ELSE IF array[1] # "arr" THEN Throw(w1, "TypeError")
        ELSE [w1 EXCEPT !.heap[array[2]] = Append(@, item)]

\* collect
collect(w, c) ==
    LET w1 == ctxPop(w, c, 1)
        n == IF Top(w, c, 1)[1] = "num" /\ Top(w, c, 1)[2] > 0 THEN Top(w, c, 1)[2] ELSE 0
        w2 == ctxPop(w1, c, n)
    IN  IF Failed(w1) THEN w1
        ELSE IF Top(w, c, 1)[1] # "num" THEN Throw(w1, "unmodelled")
        ELSE IF Failed(w2) THEN w2
        ELSE ctxPush(NewArray(w2, SubSeq(Stack(w1, c), Depth(w1, c) - n + 1, Depth(w1, c))),
                     c, <<Arr(NewArrayId(w))>>)

\* spread
spread(w, c) ==
    LET w1 == ctxPop(w, c, 1) IN
    IF Failed(w1) THEN w1
    ELSE IF Top(w, c, 1)[1] = "str" THEN Throw(w1, "unmodelled")
    ELSE IF Top(w, c, 1)[1] # "arr" THEN Throw(w1, "TypeError")
    ELSE ctxPush(w1, c, w.heap[Top(w, c, 1)[2]])

\* [
openBracket(w, c) ==
    [define(w, Undef, <<"uncallable">>, FALSE) EXCEPT
        !.ctxs[c].compilationStack = Append(@, NewEntryId(w))]

\* ]
closeBracket(w, c) ==
    LET w1 == popCompilationStack(w, c) IN
    IF Failed(w1) THEN w1
    ELSE compile(w1, c, Arr(w.dict[peekCompilationStack(w, c)].compiled))

\* pop
pop(w, c) ==
    LET w1 == ctxPop(w, c, 1)
        array == Top(w, c, 1)
    IN  IF Failed(w1) THEN w1
        ELSE IF array[1] # "arr" THEN Throw(w1, "TypeError")
        ELSE IF w.heap[array[2]] = <<>> THEN ctxPush(w1, c, <<Undef>>)
        ELSE ctxPush([w1 EXCEPT !.heap[array[2]] = Front(@)], c, <<Last(w.heap[array[2]])>>)

\* nth, and first with n = 0
Index(w, c, array, n) ==
    IF array[1] \in {"undefined", "null"} THEN Throw(w, "TypeError")
    ELSE IF array[1] = "arr" /\ n[1] = "num" THEN ctxPush(w, c, <<At(w.heap[array[2]], n[2])>>)
    ELSE IF array[1] \in {"num", "bool", "nan"} THEN ctxPush(w, c, <<Undef>>)
    ELSE Throw(w, "unmodelled")

\* first
first(w, c) ==
    LET w1 == ctxPop(w, c, 1) IN
    IF Failed(w1) THEN w1 ELSE Index(w1, c, Top(w, c, 1), Num(0))

\* nth
nth(w, c) ==
    LET w1 == ctxPop(w, c, 2) IN
    IF Failed(w1) THEN w1 ELSE Index(w1, c, Top(w, c, 2), Top(w, c, 1))

CloneNonArray == "Attempted to clone a non-array argument"

\* a clone that returns the array itself
clone_Same(w, c) ==
    LET w1 == ctxPop(w, c, 1) IN
    IF Failed(w1) THEN w1
    ELSE IF Top(w, c, 1)[1] # "arr" THEN Throw(w1, CloneNonArray)
    ELSE ctxPush(w1, c, <<Top(w, c, 1)>>)

\* clone
clone(w, c) ==
    LET w1 == ctxPop(w, c, 1) IN
    IF Failed(w1) THEN w1
    ELSE IF Top(w, c, 1)[1] # "arr" THEN Throw(w1, CloneNonArray)
    ELSE ctxPush(NewArray(w1, w.heap[Top(w, c, 1)[2]]), c, <<Arr(NewArrayId(w))>>)

\* controlStack.pop() n times in a row: the values are ControlTop(w, c, 1..n),
\* undefined where the stack has run out
ControlTop(w, c, n) ==
    IF n > Len(w.ctxs[c].controlStack) THEN Undef
    ELSE w.ctxs[c].controlStack[Len(w.ctxs[c].controlStack) + 1 - n]
controlPop(w, c, n) ==
    [w EXCEPT !.ctxs[c].controlStack =
        IF Len(@) <= n THEN <<>> ELSE SubSeq(@, 1, Len(@) - n)]
controlPush(w, c, values) == [w EXCEPT !.ctxs[c].controlStack = @ \o values]

\* >control
toControl(w, c) ==
    LET w1 == ctxPop(w, c, 1) IN
    IF Failed(w1) THEN w1 ELSE controlPush(w1, c, <<Top(w, c, 1)>>)

\* control>
fromControl(w, c) == ctxPush(controlPop(w, c, 1), c, <<ControlTop(w, c, 1)>>)

EachNeedsArray == "each requires an array argument"

\* a guard that takes the array off the stack it inspects
eachGuard_Pops(owner, w, c) ==
    IF ctxPeek(w, owner)[1] # "arr" THEN Throw(w, EachNeedsArray) ELSE ctxPop(w, owner, 1)

\* the guard `each` compiles; `owner` is the context whose `each` compiled it
eachGuard(owner, w, c) ==
    IF ctxPeek(w, owner)[1] # "arr" THEN Throw(w, EachNeedsArray) ELSE w

\* array[index] for the array and index the loop keeps on the control stack
Element(w, array, index) ==
    IF index[1] = "num" THEN At(w.heap[array[2]], index[2]) ELSE Undef

\* the function `each` compiles before the loop body
eachPrimer(w, c) ==
    LET index == ControlTop(w, c, 1)
        array == ControlTop(w, c, 2)
        w1 == controlPop(w, c, 2)
    IN  IF array[1] \in {"undefined", "null"} THEN Throw(controlPush(w1, c, <<array, index>>), "TypeError")
        ELSE IF array[1] # "arr" THEN Throw(w1, "unmodelled")
        ELSE advanceCurrentFrame(
                controlPush(w1, c, <<array, index, Element(w, array, index)>>), c, 1)

\* each
each(w, c) ==
    LET w1 == compile(w, c, <<"eachguard", c>>)
        w2 == compile(w1, c, coreWordImpl(w, "clone"))
        w3 == compile(w2, c, coreWordImpl(w, ">control"))
        w4 == compile(w3, c, Num(0))
        w5 == compile(w4, c, coreWordImpl(w, ">control"))
        w6 == compile(w5, c, <<"eachprimer">>)
    IN  IF Failed(w1) THEN w1 ELSE compile(here(w6, c), c, Null)

\* I
I(w, c) ==
    ctxPush(controlPush(controlPop(w, c, 1), c, <<ControlTop(w, c, 1)>>), c,
            <<ControlTop(w, c, 1)>>)

\* the function `endeach` compiles, closed over `offset`
endeachImpl(offset, w, c) ==
    LET lastIndex == ControlTop(w, c, 2)
        array == ControlTop(w, c, 3)
        index == binary("+", lastIndex, Num(1))
        w1 == controlPop(w, c, 3)
    IN  IF array[1] \in {"undefined", "null"} THEN Throw(w1, "TypeError")
        ELSE IF array[1] # "arr" \/ index[1] # "num" \/ offset[1] # "num"
        THEN Throw(w1, "unmodelled")
        ELSE IF index[2] >= Len(w.heap[array[2]]) THEN w1
        ELSE advanceCurrentFrame(
                controlPush(w1, c, <<array, index, Element(w, array, index)>>), c, offset[2])

\* endeach
endeach(w, c) ==
    LET w1 == minusStackFrame(here(w, c), c) IN
    IF Failed(w1) THEN w1 ELSE compile(ctxPop(w1, c, 1), c, <<"endeachimpl", ctxPeek(w1, c)>>)

(***************************************************************************)
(* The executor                                                            *)
(***************************************************************************)
\* the `impl` of a core word defined in JavaScript
\* a wordToFunc: that takes the latest definition whatever the name read
wordToFunc_Latest(w, c) ==
    LET w1 == find(word(w, c), c) IN
    IF Failed(w1) THEN w1
    ELSE ctxPush(ctxPop(w1, c, 1), c, <<<<"wordfunc", DictRef(w.latest)>>>>)

\* wordToFunc: pushes, at compile time, a function closed over what find gave
wordToFunc(w, c) ==
    LET w1 == find(word(w, c), c) IN
    IF Failed(w1) THEN w1
    ELSE ctxPush(ctxPop(w1, c, 1), c, <<<<"wordfunc", ctxPeek(w1, c)>>>>)

\* on (browser.ts): the entry is made without define, the listener is added
\* to ctx.me, and what ctx.compilationTarget holds, undefined on a context
\* that has run no `on`, is pushed on the compilation stack
on(w, c) ==
    LET w1 == ctxPop(word(w, c), c, 1)
        eventName == ctxPeek(word(w, c), c)[2]
        dictionaryEntry == NewEntryId(w1)
        w2 == [NewArray(w1, <<>>) EXCEPT
                 !.dict = Append(@, [previous |-> 0,
                                     name |-> Spell("anonymous-on-") \o eventName
                                                \o Spell("-handler"),
                                     impl |-> <<"uncallable">>, isImmediate |-> FALSE,
                                     compiled |-> NewArrayId(w1)])]
    IN  IF w.ctxs[c].me \in {Null, Undef} THEN Throw(w2, "TypeError")
        ELSE [w2 EXCEPT
                !.listeners = Append(@, [target |-> w.ctxs[c].me, event |-> eventName,
                                         dictionaryEntry |-> dictionaryEntry, fired |-> <<>>]),
                !.ctxs[c].compilationStack = Append(@, w.ctxs[c].compilationTarget),
                !.ctxs[c].compilationTarget = dictionaryEntry]

\* load() of browser.ts: of the words it defines, `on`
load(w) == define(w, Str(Spell("on")), Prim("on"), TRUE)

PrimCall(name, w, c) ==
    CASE name = "on" -> on(w, c)
      [] name = "wordToFunc:" -> wordToFunc(w, c)
      [] name = "swap" -> swap(w, c)
      [] name = "over" -> over(w, c)
      [] name = "rot" -> rot(w, c)
      [] name = "-rot" -> minusRot(w, c)
      [] name = "dup" -> dup(w, c)
      [] name = "2dup" -> twoDup(w, c)
      [] name = "drop" -> drop(w, c)
      [] name = "'" -> quote(w, c)
      [] name = "log" -> log(w, c)
      [] name = "now" -> now(w, c)
      [] name \in BinaryNames -> defineBinaryExactlyAsInJS(name, w, c)
      [] name = "quit" -> quit(w, c)
      [] name = "word" -> word(w, c)
      [] name = "find" -> find(w, c)
      [] name = "interpret" -> interpret(w, c)
      [] name = ":" -> colon(w, c)
      [] name = "exit" -> exit(w, c)
      [] name = ";" -> semicolon(w, c)
      [] name = "postpone" -> postpone(w, c)
      [] name = "immediate" -> immediate(w, c)
      [] name = "," -> comma(w, c)
      [] name = "tick" -> tick(w, c)
      [] name = "lit" -> lit(w, c)
      [] name = "compileNow:" -> compileNow(w, c)
      [] name = "latest" -> latestWord(w, c)
      [] name = "here" -> here(w, c)
      [] name = "-stackFrame" -> minusStackFrame(w, c)
      [] name = "branch" -> branch(w, c)
      [] name = "0branch" -> zeroBranch(w, c)
      [] name = "falsyBranch" -> falsyBranch(w, c)
      [] name = "var:" -> varColon(w, c)
      [] name = "!" -> store(w, c)
      [] name = "@" -> fetch(w, c)
      [] name = "const:" -> constColon(w, c)
      [] name = "sleep" -> sleep(w, c)
      [] name = "(" -> consume(w, c, ")", TRUE, FALSE)
      [] name = "EXECUTE" -> EXECUTE(w, c)
      [] name = "[]" -> emptyArray(w, c)
      [] name = "push" -> push(w, c)
      [] name = "collect" -> collect(w, c)
      [] name = "spread" -> spread(w, c)
      [] name = "[" -> openBracket(w, c)
      [] name = "]" -> closeBracket(w, c)
      [] name = "pop" -> pop(w, c)
      [] name = "first" -> first(w, c)
      [] name = "nth" -> nth(w, c)
      [] name = "clone" -> clone(w, c)
      [] name = ">control" -> toControl(w, c)
      [] name = "control>" -> fromControl(w, c)
      [] name = "each" -> each(w, c)
      [] name = "I" -> I(w, c)
      [] name = "endeach" -> endeach(w, c)
      [] OTHER -> Throw(w, "unmodelled")

\* cell({ctx}) for a callable cell
Call(cell, w, c) ==
    CASE cell[1] = "prim" -> PrimCall(cell[2], w, c)
      [] cell[1] = "docol" -> docol(cell[2], w, c)
      [] cell[1] = "compile" -> compileLater(cell[2], w, c)
      [] cell[1] = "varimpl" -> varimpl(cell[2], w, c)
      [] cell[1] = "constget" -> constget(cell[2], w, c)
      [] cell[1] = "constset" -> constset(cell[2], w, c)
      [] cell[1] = "eachguard" -> eachGuard(cell[2], w, c)
      [] cell[1] = "eachprimer" -> eachPrimer(w, c)
      [] cell[1] = "endeachimpl" -> endeachImpl(cell[2], w, c)
      [] cell[1] = "uncallable" -> Throw(w, "Uncallable dictionary entry called")
      [] OTHER -> Throw(w, "unmodelled")

\* executeColonDefinition; `trace` records the cells it runs
executeColonDefinition(w, c) ==
    LET frame == peekReturnStack(w, c)
        w1 == advanceCurrentFrame(w, c, 1)
        maybeCallable == At(Compiled(w, frame.dictionaryEntry), frame.i)
        w2 == [w1 EXCEPT !.ctxs[c].trace = Append(@, <<frame.dictionaryEntry, frame.i>>)]
    IN  IF ~HasFrame(w, c) THEN Throw(w, ReturnStackUnderflow)
        ELSE IF frame.i = Len(Compiled(w, frame.dictionaryEntry)) THEN exit(w1, c)
        ELSE IF ~IsCallable(maybeCallable) THEN ctxPush(w2, c, <<maybeCallable>>)
        ELSE Call(maybeCallable, w2, c)

\* a loop that tests `halted` only when the return stack is empty
Running_HaltedAtTopLevel(w, c) ==
    ~w.ctxs[c].paused /\ (~w.ctxs[c].halted \/ w.ctxs[c].returnStack # <<>>)

\* a loop that goes on while the context is paused
Running_WhilePaused(w, c) == ~w.ctxs[c].halted

\* the condition of the loop of query
Running(w, c) == ~w.ctxs[c].halted /\ ~w.ctxs[c].paused

\* one iteration of the loop of query
QueryStep(w, c) ==
    IF w.ctxs[c].returnStack # <<>> THEN executeColonDefinition(w, c) ELSE interpret(w, c)

(***************************************************************************)
(* Module evaluation: the core words in the order the module defines them, *)
(* with the bootstrap script run between EXECUTE and []                    *)
(***************************************************************************)
CoreWordsBefore ==
    <<"swap", "over", "rot", "-rot", "dup", "2dup", "drop", "'", "log", ".s", "typeof",
      "now", "&&", "||", "==", "===", "+", "-", "*", "/", "<", ">", ">=", "<=",
      "instanceof", "quit", "word", "find", "interpret", ":", "exit", ";", "postpone",
      "immediate", ",", "tick", "lit", "compileNow:", "latest", "here", "-stackFrame",
      "branch", "0branch", "falsyBranch", "var:", "!", "@", "const:", "sleep", "debugger",
      "'debugger", "(", ".", ".!", "C", "throwNewError", "globalThis", "jsApply",
      "wordToFunc:", ".apply:", "EXECUTE">>
CoreWordsAfter ==
    <<"[]", "push", "collect", "spread", "[", "]", "pop", "{}", "first", "nth", "clone",
      ">control", "control>", "each", "I", "endeach", "re/", "match", "match/">>
ImmediateCoreWords ==
    {"'", "word", ":", ";", "postpone", "immediate", "compileNow:", "var:", "const:",
     "'debugger", "(", ".", ".!", "wordToFunc:", ".apply:", "EXECUTE", "[", "]", "each",
     "endeach", "re/", "match/"}

\* define({name, impl, isImmediate}) for each of `names` in turn, none of
\* them defined before
DefineAll(w, names) ==
    [w EXCEPT
        !.dict = @ \o [k \in 1..Len(names) |->
                    [previous |-> IF k = 1 THEN w.latest ELSE Len(w.dict) + k - 1,
                     name |-> Spell(names[k]),
                     impl |-> Prim(names[k]),
                     isImmediate |-> names[k] \in ImmediateCoreWords,
                     compiled |-> Len(w.heap) + k]],
        !.heap = @ \o [k \in 1..Len(names) |-> <<>>],
        !.latest = Len(w.dict) + Len(names),
        !.coreWords = @ \cup {Len(w.dict) + k : k \in 1..Len(names)}]

EmptyWorld ==
    [dict |-> <<>>, heap |-> <<>>, latest |-> 0, doneDefiningCoreWords |-> FALSE,
     coreWords |-> {}, anonCount |-> 0, ctxs |-> <<>>, timers |-> <<>>, clock |-> 0,
     listeners |-> <<>>,
     callStack |-> <<>>, exc |-> ""]

\* the module evaluated up to the call query({ctx: {...newCtx(), inputStream}})
Booting ==
    LET w1 == newCtx(DefineAll(EmptyWorld, CoreWordsBefore)) IN
    [w1 EXCEPT !.ctxs[1].inputStream = BootSource,
               !.callStack = <<[ctx |-> 1, caller |-> "module"]>>]

(***************************************************************************)
(* The state machine                                                       *)
(***************************************************************************)
World ==
    [dict |-> dict, heap |-> heap, latest |-> latest,
     doneDefiningCoreWords |-> doneDefiningCoreWords, coreWords |-> coreWords,
     anonCount |-> anonCount, ctxs |-> ctxs, timers |-> timers, clock |-> clock,
     listeners |-> listeners,
     callStack |-> callStack, exc |-> ""]

\* the state after a step of context c; an exception leaves every call of query
Commit(w, c) ==
    /\ dict' = w.dict
    /\ heap' = w.heap
    /\ latest' = w.latest
    /\ doneDefiningCoreWords' = w.doneDefiningCoreWords
    /\ coreWords' = w.coreWords
    /\ anonCount' = w.anonCount
    /\ timers' = w.timers
    /\ listeners' = w.listeners
    /\ clock' = w.clock
    /\ ctxs' = IF Failed(w) THEN [w.ctxs EXCEPT ![c].error = w.exc] ELSE w.ctxs
    /\ callStack' = IF Failed(w) THEN <<>> ELSE w.callStack

Current == Last(callStack).ctx

Init ==
    /\ dict = Booting.dict
    /\ heap = Booting.heap
    /\ latest = Booting.latest
    /\ doneDefiningCoreWords = Booting.doneDefiningCoreWords
    /\ coreWords = Booting.coreWords
    /\ anonCount = Booting.anonCount
    /\ ctxs = Booting.ctxs
    /\ timers = Booting.timers
    /\ listeners = Booting.listeners
    /\ clock = Booting.clock
    /\ callStack = Booting.callStack
    /\ phase = "boot"
    /\ pending = <<>>

\* the bootstrap query has returned: the module defines its remaining words
\* and is loaded (the bootstrap context is garbage); the host then has the
\* scripts of one of `suites` to run
Load(suites) ==
    /\ phase = "boot"
    /\ callStack = <<>>
    /\ ctxs[1].error = ""
    /\ phase' = "ready"
    /\ pending' \in suites
    /\ Commit([DefineAll(World, CoreWordsAfter) EXCEPT
                 !.doneDefiningCoreWords = TRUE, !.ctxs = <<>>], 1)

\* the module is loaded as by Load and the page then calls load() of
\* browser.ts
LoadBrowser(suites) ==
    /\ phase = "boot"
    /\ callStack = <<>>
    /\ ctxs[1].error = ""
    /\ phase' = "ready"
    /\ pending' \in suites
    /\ Commit(load([DefineAll(World, CoreWordsAfter) EXCEPT
                      !.doneDefiningCoreWords = TRUE, !.ctxs = <<>>]), 1)

\* the elements of the page that carry a script
Element1 == <<"element", 1>>

\* runAttributes (browser.ts): the next script is the attribute `c` of an
\* element, run with `me` the element; an exception is caught and logged
RunAttributes ==
    /\ phase = "ready"
    /\ callStack = <<>>
    /\ pending # <<>>
    /\ Commit([newCtx(World) EXCEPT
                 !.ctxs[NewCtxId(World)].inputStream = Head(pending),
                 !.ctxs[NewCtxId(World)].me = Element1,
                 !.callStack = <<[ctx |-> NewCtxId(World), caller |-> "host"]>>],
              NewCtxId(World))
    /\ pending' = Tail(pending)
    /\ UNCHANGED phase

\* the host creates a context for the next script and calls query
Run ==
    /\ phase = "ready"
    /\ callStack = <<>>
    /\ pending # <<>>
    /\ Commit([newCtx(World) EXCEPT
                 !.ctxs[NewCtxId(World)].inputStream = Head(pending),
                 !.callStack = <<[ctx |-> NewCtxId(World), caller |-> "host"]>>],
              NewCtxId(World))
    /\ pending' = Tail(pending)
    /\ UNCHANGED phase

\* an iteration of the loop of query with a frame on the return stack
Execute ==
    /\ callStack # <<>>
    /\ Running(World, Current)
    /\ ctxs[Current].returnStack # <<>>
    /\ Commit(executeColonDefinition(World, Current), Current)
    /\ UNCHANGED <<phase, pending>>

\* an iteration of the loop of query with the return stack empty
Interpret ==
    /\ callStack # <<>>
    /\ Running(World, Current)
    /\ ctxs[Current].returnStack = <<>>
    /\ Commit(interpret(World, Current), Current)
    /\ UNCHANGED <<phase, pending>>

\* the loop of query ends: the call returns; when the caller is the function
\* made by wordToFunc:, the function goes on to its end and returns ctx.pop()
\* if the stack is not empty
Return ==
    /\ callStack # <<>>
    /\ ~Running(World, Current)
    /\ callStack' = Front(callStack)
    /\ ctxs' = IF Last(callStack).caller # "callable" THEN ctxs
               ELSE IF ctxs[Current].parameterStack = <<>>
               THEN [ctxs EXCEPT ![Current].returned = Undef]
               ELSE [ctxs EXCEPT ![Current].returned = Last(ctxs[Current].parameterStack),
                                 ![Current].parameterStack = Front(@)]
    /\ UNCHANGED <<dict, heap, latest, doneDefiningCoreWords, coreWords, anonCount,
                   timers, listeners, clock, phase, pending>>

\* the timer that is due first, the earliest set among equals
NextTimer ==
    CHOOSE k \in 1..Len(timers) :
        \A j \in 1..Len(timers) :
            timers[k].due < timers[j].due \/ (timers[k].due = timers[j].due /\ k <= j)

\* a callback set by `sleep` runs: paused = false, then query({ctx})
Timeout ==
    /\ callStack = <<>>
    /\ timers # <<>>
    /\ ctxs' = [ctxs EXCEPT ![timers[NextTimer].ctx].paused = FALSE]
    /\ callStack' = <<[ctx |-> timers[NextTimer].ctx, caller |-> "timer"]>>
    /\ clock' = IF timers[NextTimer].due > clock THEN timers[NextTimer].due ELSE clock
    /\ timers' = [k \in 1..(Len(timers) - 1) |->
                    IF k < NextTimer THEN timers[k] ELSE timers[k + 1]]
    /\ UNCHANGED <<dict, heap, latest, doneDefiningCoreWords, coreWords, anonCount,
                   listeners, phase, pending>>

(***************************************************************************)
(* Scripts the host runs                                                   *)
(***************************************************************************)
\* scripts of the test suite, and further scripts that sleep, quit, or leave
\* `:` and `;` unmatched
Scenarios ==
    { <<Source(<<"3", "5", "+">>)>>,
      <<Source(<<"1", "2", "3", "-rot">>)>>,
      <<Source(<<":", "inner", "3", ";", ":", "outer", "4", "inner", ";", "outer">>)>>,
      <<Source(<<":", "iffy", "true", "if", "true", "else", "7", "endif", ";", "iffy">>)>>,
      <<Source(<<":", "count", "begin", "1", "-", "dup", "1", "<", "until", ";",
                 "5", "count", "0", "===">>)>>,
      <<Source(<<"0", "[", "3", "5", "7", "]", ":", "addall", "each", "I", "+", "endeach",
                 ";", "addall">>)>>,
      <<Source(<<"var:", "v", "5", "v", "!", "v", "@">>)>>,
      <<Source(<<"now", "5", "sleep", "now", "swap", "-", "4", ">">>)>>,
      <<Source(<<":", "w", "now", "5", "sleep", "now", "swap", "-", "4", ">", ";", "w">>)>>,
      <<Source(<<":", "w", "1", "sleep", "2", "log", ";", "w", "3", "sleep", "w">>)>>,
      <<Source(<<":", "w", "immediate", "quit", ";", "1", "w">>)>>,
      <<Source(<<":", "w", "1", "quit", "2", ";", "w", "3">>)>>,
      <<Source(<<";">>)>>,
      <<Source(<<";", ":", "w", "1", "2">>)>>,
      <<Source(<<":", "w", "1", "2">>)>>,
      <<Source(<<"1", "sleep">>), Source(<<"2", "log">>)>> }

\* every script of at most MaxWords words over ShortWords
MaxWords == 2
ShortWords == {"1", "0", "dup", "drop", "+", "sleep", "exit", "log", ";", "[", "]", "quit"}
ShortScripts ==
    UNION {{<<Source(ws)>> : ws \in [1..n -> ShortWords]} : n \in 1..MaxWords}

Next == Load(Scenarios \cup ShortScripts) \/ Run \/ Execute \/ Interpret \/ Return \/ Timeout
Spec == Init /\ [][Next]_vars

(***************************************************************************)
(* Properties                                                              *)
(***************************************************************************)
Contexts == 1..Len(ctxs)

\* no script reaches a case the model leaves out
Modelled == \A c \in Contexts : ctxs[c].error # "unmodelled"

\* the loop of query({ctx: c}) has ended and the call is about to return
Returning(c) == callStack # <<>> /\ Current = c /\ ~Running(World, c)

\* C1 as stated: when the host's call of query on a fresh context returns
\* without an error, the context is halted and haltedPromise is resolved
C1_HaltedAtReturn ==
    \A c \in Contexts :
        (phase = "ready" /\ Returning(c) /\ Last(callStack).caller = "host")
            => (ctxs[c].halted /\ ctxs[c].haltedPromise = "resolved")

\* C1, amended: when a call of query returns without an error, the context is
\* halted and haltedPromise is resolved, or it is paused by a sleep whose
\* timer is pending; haltedPromise is resolved exactly when halted is true
C1_HaltedOrPausedAtReturn ==
    \A c \in Contexts :
        /\ Returning(c) =>
            \/ (ctxs[c].halted /\ ctxs[c].haltedPromise = "resolved")
            \/ (ctxs[c].paused /\ \E k \in 1..Len(timers) : timers[k].ctx = c)
        /\ ctxs[c].halted <=> ctxs[c].haltedPromise = "resolved"

\* the host's call returns from a script that ran cells and is paused by
\* sleep, not halted, its timer pending
C1_Witness ==
    \E c \in Contexts :
        /\ phase = "ready" /\ Returning(c) /\ Last(callStack).caller = "host"
        /\ ctxs[c].paused /\ ~ctxs[c].halted /\ ctxs[c].haltedPromise = "pending"
        /\ ctxs[c].trace # <<>> /\ ctxs[c].error = ""
        /\ \E k \in 1..Len(timers) : timers[k].ctx = c

\* interpret, called by the loop of query for c, finds the cursor at the end
EndOfInputVisit(c) ==
    /\ callStack # <<>> /\ Current = c /\ Running(World, c)
    /\ ctxs[c].returnStack = <<>>
    /\ ctxs[c].inputStreamPointer >= Len(ctxs[c].inputStream)

BaseFrame(c) == [dictionaryEntry |-> ctxs[c].base, i |-> 0]

\* C2 as stated: with executeAtEnd, the first visit of interpret to the end
\* of input that raises no error sets didExecuteAndEnd, truncates the compilation stack to the
\* base entry and pushes the frame {base, 0}; didExecuteAndEnd is never
\* reset and is only set by pushing that frame; every later visit halts the
\* context and pushes nothing
C2_ExecuteBaseOnce ==
    [][\A c \in Contexts \cap (1..Len(ctxs')) :
        /\ (EndOfInputVisit(c) /\ ctxs[c].executeAtEnd /\ ~ctxs[c].didExecuteAndEnd
                /\ ctxs'[c].error = "")
            => /\ ctxs'[c].didExecuteAndEnd
               /\ ctxs'[c].compilationStack = <<ctxs[c].base>>
               /\ ctxs'[c].returnStack = <<BaseFrame(c)>>
        /\ (EndOfInputVisit(c) /\ ctxs[c].didExecuteAndEnd)
            => (ctxs'[c].halted /\ ctxs'[c].returnStack = <<>>)
        /\ ctxs[c].didExecuteAndEnd => ctxs'[c].didExecuteAndEnd
        /\ (~ctxs[c].didExecuteAndEnd /\ ctxs'[c].didExecuteAndEnd /\ ctxs'[c].error = "")
            => (ctxs'[c].returnStack # <<>> /\ Last(ctxs'[c].returnStack) = BaseFrame(c))
      ]_vars

\* the part of it that does not depend on which entry is started: the first
\* visit that raises no error sets didExecuteAndEnd, keeps the bottom of the
\* compilation stack alone and starts that entry; didExecuteAndEnd is never
\* reset; every later visit halts the context and pushes nothing
ExecuteAtEndOnce ==
    [][\A c \in Contexts \cap (1..Len(ctxs')) :
        /\ (EndOfInputVisit(c) /\ ctxs[c].executeAtEnd /\ ~ctxs[c].didExecuteAndEnd
                /\ ctxs'[c].error = "")
            => /\ ctxs'[c].didExecuteAndEnd
               /\ ctxs'[c].compilationStack = SubSeq(ctxs[c].compilationStack, 1, 1)
               /\ ctxs'[c].returnStack =
                    <<[dictionaryEntry |-> ctxs[c].compilationStack[1], i |-> 0]>>
        /\ (EndOfInputVisit(c) /\ ctxs[c].didExecuteAndEnd)
            => (ctxs'[c].halted /\ ctxs'[c].returnStack = <<>>)
        /\ ctxs[c].didExecuteAndEnd => ctxs'[c].didExecuteAndEnd
      ]_vars

\* a script whose end of input started an entry other than the base entry,
\* and halted without an error
C2_Witness ==
    \E c \in Contexts :
        /\ ctxs[c].halted /\ ctxs[c].error = ""
        /\ \E k \in 1..Len(ctxs[c].trace) : ctxs[c].trace[k][1] # ctxs[c].base
        /\ \A k \in 1..Len(ctxs[c].trace) : ctxs[c].trace[k][1] # ctxs[c].base
        /\ ctxs[c].compilationStack # <<ctxs[c].base>>

(***************************************************************************)
(* A colon definition and its body written in place                        *)
(***************************************************************************)
MaxBody == 2
BodyWords == {"1", "2", "dup", "swap", "drop", "+", "x", "exit"}
Bodies == UNION {[1..n -> BodyWords] : n \in 0..MaxBody}
Continuations == {<<"3">>, <<"dup", "+">>}
Prelude == <<":", "x", "7", "exit", "8", ";">>
Defined(S, K) == Source(Prelude \o <<":", "w">> \o S \o <<";", "w">> \o K)
InPlace(S, K) == Source(Prelude \o S \o K)
HasExit(S) == \E k \in 1..Len(S) : S[k] = "exit"
SuiteC3 == {<<Defined(S, K), InPlace(S, K)>> : S \in Bodies, K \in Continuations}
ExitFreePairs ==
    {<<Defined(S, K), InPlace(S, K)>> : S \in {B \in Bodies : ~HasExit(B)},
                                        K \in Continuations}

Next_C3 == Load(SuiteC3) \/ Run \/ Execute \/ Interpret \/ Return
Spec_C3 == Init /\ [][Next_C3]_vars

\* the script of context c has run to its end or has thrown
Finished(c) == ctxs[c].halted \/ ctxs[c].error # ""

\* both scripts of a suite of two have finished
BothFinished ==
    phase = "ready" /\ callStack = <<>> /\ Len(ctxs) = 2 /\ Finished(1) /\ Finished(2)

\* C3 as stated: for every body S, `: w S ; w` followed by a continuation
\* leaves the same final parameter stack as S written in place of the call
C3_SameAsInPlace ==
    BothFinished => ctxs[1].parameterStack = ctxs[2].parameterStack

\* C3, amended: for every body S that does not contain `exit`, `: w S ; w`
\* followed by a continuation ends as S written in place of the call does:
\* with the same error or none, and the same parameter stack
C3_SameAsInPlaceWithoutExit ==
    (BothFinished /\ <<ctxs[1].inputStream, ctxs[2].inputStream>> \in ExitFreePairs)
        => /\ ctxs[1].parameterStack = ctxs[2].parameterStack
           /\ ctxs[1].error = ctxs[2].error

\* both scripts halted with a result, the first having run cells of w and a
\* call of x inside it
C3_Witness ==
    /\ BothFinished /\ <<ctxs[1].inputStream, ctxs[2].inputStream>> \in ExitFreePairs
    /\ ctxs[1].halted /\ ctxs[2].halted
    /\ Len(ctxs[1].parameterStack) = 3
    /\ Cardinality({ctxs[1].trace[k][1] : k \in 1..Len(ctxs[1].trace)}) = 3

(***************************************************************************)
(* An immediate word m that appends cells to the definition using it       *)
(***************************************************************************)
MaxAppend == 2
AppendItems == {"7", "8", "dup"}
IsNumberItem(t) == t \in {"1", "2", "3", "7", "8"}

\* the words of m that append the item, and the cell they append
AppendWords(t) == IF IsNumberItem(t) THEN <<t, ",">> ELSE <<"tick", t, ",">>
CellOf(t) == IF IsNumberItem(t) THEN wordAsPrimitive(Spell(t)).value ELSE Prim(t)

RECURSIVE Flatten(_)
Flatten(seqs) == IF seqs = <<>> THEN <<>> ELSE Head(seqs) \o Flatten(Tail(seqs))

\* `: m immediate B ; : y L m R ; y`
ScriptC4(B, L, R) ==
    <<":", "m", "immediate">> \o Flatten([k \in 1..Len(B) |-> AppendWords(B[k])])
        \o <<";", ":", "y">> \o L \o <<"m">> \o R \o <<";", "y">>

RECURSIVE Effect(_, _)
\* the parameter stack after running cells that are numbers or dup on `stack`
Effect(cells, stack) ==
    IF cells = <<>> THEN stack
    ELSE IF Head(cells) = Prim("dup")
    THEN Effect(Tail(cells), Append(stack, IF stack = <<>> THEN Undef ELSE Last(stack)))
    ELSE Effect(Tail(cells), Append(stack, Head(cells)))

FamilyC4 ==
    {[script |-> Source(ScriptC4(B, L, R)),
      cells |-> [k \in 1..Len(L \o B \o R) |-> CellOf((L \o B \o R)[k])]] :
        B \in UNION {[1..n -> AppendItems] : n \in 0..MaxAppend},
        L \in {<<>>, <<"1">>, <<"2", "dup">>},
        R \in {<<>>, <<"3">>, <<"dup">>}}

Next_C4 == Load({<<f.script>> : f \in FamilyC4}) \/ Run \/ Execute \/ Interpret \/ Return
Spec_C4 == Init /\ [][Next_C4]_vars

\* the entry named `name`, as find sees it
EntryOf(name) == Lookup(World, latest, Spell(name))

\* the cells executeColonDefinition ran in entry e, in the order it ran them
CellsRun(c, e) ==
    LET ran == SelectSeq(ctxs[c].trace, LAMBDA t : t[1] = e)
    IN  [k \in 1..Len(ran) |-> ran[k][2]]

\* interpret is about to read the word `name` while the target is `target`
Encounters(c, name, target) ==
    /\ callStack # <<>> /\ Current = c /\ Running(World, c)
    /\ ctxs[c].returnStack = <<>>
    /\ ctxs[c].inputStreamPointer < Len(ctxs[c].inputStream)
    /\ ctxPeek(word(World, c), c) = Str(Spell(name))
    /\ ctxs[c].compilationStack # <<>> /\ Last(ctxs[c].compilationStack) = target

\* C4: when interpret meets the immediate word m while compiling y it starts
\* m and appends nothing to y; no further token is read until m has run to
\* its end; and when the script has halted, y holds the cells compiled before
\* m, then the cells m appended with `,` in the order appended, then the
\* cells compiled after m, never m itself, and each of them ran once, in
\* order, leaving their effect on the parameter stack
C4_ImmediateRunsAtCompileTime ==
    /\ [][\A c \in Contexts \cap (1..Len(ctxs')) :
            /\ (phase = "ready" /\ Encounters(c, "m", EntryOf("y")))
                => /\ ctxs'[c].returnStack = <<[dictionaryEntry |-> EntryOf("m"), i |-> 0]>>
                   /\ heap' = heap
                   /\ ctxs'[c].inputStreamPointer > ctxs[c].inputStreamPointer
            /\ (phase = "ready" /\ ctxs[c].returnStack # <<>>
                    /\ ~ctxs[c].didExecuteAndEnd)
                => ctxs'[c].inputStreamPointer = ctxs[c].inputStreamPointer
       ]_vars
    /\ [](\A c \in Contexts : \A f \in FamilyC4 :
            (phase = "ready" /\ ctxs[c].inputStream = f.script /\ Finished(c))
                => /\ ctxs[c].error = ""
                   /\ Compiled(World, EntryOf("y")) = f.cells
                   /\ CellsRun(c, EntryOf("y")) = [k \in 1..Len(f.cells) |-> k - 1]
                   /\ ctxs[c].parameterStack = Effect(f.cells, <<>>))

\* a halted script whose y holds a cell compiled before m, two cells m
\* appended and a cell compiled after m
C4_Witness ==
    \E c \in Contexts :
        /\ phase = "ready" /\ ctxs[c].halted
        /\ ctxs[c].inputStream = Source(ScriptC4(<<"7", "dup">>, <<"1">>, <<"3">>))
        /\ Compiled(World, EntryOf("y")) = <<Num(1), Num(7), Prim("dup"), Num(3)>>
        /\ ctxs[c].parameterStack = <<Num(1), Num(7), Num(7), Num(3)>>

(***************************************************************************)
(* postpone X in a definition y, against X written directly                *)
(***************************************************************************)
\* the words X of the claim as stated, used as `3 4 y 5`
PostponedWords == {"dup", "swap", "+", "drop", "if", "begin"}
Postponed(X) == Source(<<":", "y", "postpone", X, ";", "3", "4", "y", "5">>)
Plain(X) == Source(<<":", "y", X, ";", "3", "4", "y", "5">>)

\* places of use `: z L X R ; A z` after the definitions P, for words X that
\* are not immediate (dup, swap, +, over, x) and that are (if, else, endif,
\* begin, until, word, m)
UserWords == <<":", "m", "immediate", "7", ",", ";", ":", "x", "9", ";">>
Loop == <<"1", "-", "dup", "1", "<">>
Places ==
    {[P |-> <<>>, X |-> X, L |-> L, R |-> R, A |-> <<"3", "4">>] :
        X \in {"dup", "swap", "+", "over"}, L \in {<<>>, <<"1">>}, R \in {<<>>, <<"2">>}}
    \cup {[P |-> UserWords, X |-> X, L |-> L, R |-> <<"2">>, A |-> <<>>] :
        X \in {"x", "m"}, L \in {<<>>, <<"1">>}}
    \cup {[P |-> <<>>, X |-> "if", L |-> <<>>, R |-> R, A |-> A] :
        R \in {<<"7", "endif", "8">>, <<"7", "else", "8", "endif">>},
        A \in {<<"true">>, <<"false">>}}
    \cup {[P |-> <<>>, X |-> "else", L |-> <<"if", "7">>, R |-> <<"8", "endif">>, A |-> A] :
        A \in {<<"true">>, <<"false">>}}
    \cup {[P |-> <<>>, X |-> "endif", L |-> <<"if", "7">>, R |-> <<"8">>, A |-> A] :
        A \in {<<"true">>, <<"false">>}}
    \cup {[P |-> <<>>, X |-> "begin", L |-> <<>>, R |-> Loop \o <<"until">>, A |-> <<"2">>],
          [P |-> <<>>, X |-> "until", L |-> <<"begin">> \o Loop, R |-> <<>>, A |-> <<"2">>],
          [P |-> <<>>, X |-> "word", L |-> <<"1">>, R |-> <<"k", "2">>, A |-> <<>>]}
ViaPostpone(t) ==
    Source(t.P \o <<":", "y", "immediate", "postpone", t.X, ";", ":", "z">> \o t.L
            \o <<"y">> \o t.R \o <<";">> \o t.A \o <<"z">>)
Direct(t) ==
    Source(t.P \o <<":", "z">> \o t.L \o <<t.X>> \o t.R \o <<";">> \o t.A \o <<"z">>)
PostponedPairs == {<<Postponed(X), Plain(X)>> : X \in PostponedWords}
PlacePairs == {<<ViaPostpone(t), Direct(t)>> : t \in Places}

Next_C5 ==
    Load(PostponedPairs \cup PlacePairs) \/ Run \/ Execute \/ Interpret \/ Return
Spec_C5 == Init /\ [][Next_C5]_vars

\* the entry find sees for `name`, and the one it shadows
Shadowed(name) == Lookup(World, dict[EntryOf(name)].previous, Spell(name))

\* the cells of entry e, a call of a colon definition shown by the name called
CompiledNames(e) ==
    [k \in 1..Len(Compiled(World, e)) |->
        IF Compiled(World, e)[k][1] = "docol"
        THEN <<"docol", dict[Compiled(World, e)[k][2]].name>>
        ELSE Compiled(World, e)[k]]

\* C5 as stated: `: y postpone X ;` used as `3 4 y 5` ends as `: y X ;` does
C5_PostponeSameAsPlain ==
    (BothFinished /\ <<ctxs[1].inputStream, ctxs[2].inputStream>> \in PostponedPairs)
        => /\ ctxs[1].parameterStack = ctxs[2].parameterStack
           /\ ctxs[1].error = ctxs[2].error

\* C5, amended: for every word X, immediate or not, the immediate definition
\* `: y immediate postpone X ;` has, when y is used in a definition z, the
\* same effect as X written at that place of z: z is compiled to the same
\* cells, and the script ends with the same error or none and the same
\* parameter stack
C5_ImmediatePostponeSameAsDirect ==
    (BothFinished /\ <<ctxs[1].inputStream, ctxs[2].inputStream>> \in PlacePairs)
        => /\ ctxs[1].parameterStack = ctxs[2].parameterStack
           /\ ctxs[1].error = ctxs[2].error
           /\ CompiledNames(Shadowed("z")) = CompiledNames(EntryOf("z"))

\* both scripts halted, z having been compiled through `postpone if` to
\* cells that ran and left 7 and 8
C5_Witness ==
    /\ BothFinished /\ <<ctxs[1].inputStream, ctxs[2].inputStream>> \in PlacePairs
    /\ ctxs[1].halted /\ ctxs[2].halted
    /\ ctxs[1].parameterStack = <<Num(7), Num(8)>>
    /\ Len(Compiled(World, Shadowed("z"))) = 4
    /\ Len(CellsRun(1, Shadowed("z"))) = 3

(***************************************************************************)
(* if / else / endif                                                       *)
(***************************************************************************)
\* a branch is at most MaxLogs times `n log`
MaxLogs == 2
Conditions ==
    {<<"true">>, <<"1">>, <<"-1">>, <<"false">>, <<"0">>, <<"undefined">>, <<"0", "0", "/">>}
Truthy(C) == C \in {<<"true">>, <<"1">>, <<"-1">>}
LogWords(numbers, n) == Flatten([k \in 1..n |-> <<numbers[k], "log">>])
Logged(numbers, n) == [k \in 1..n |-> wordAsPrimitive(Spell(numbers[k])).value]
ANumbers == <<"1", "4", "6">>
BNumbers == <<"2", "5", "7">>
RNumbers == <<"3", "8", "9">>
FromTo(a, b) == [k \in 1..(b - a + 1) |-> a + k - 1]
InDefinition(inDef, words) ==
    IF inDef THEN <<":", "w">> \o words \o <<";", "w">> ELSE words

\* `C if A else B endif R`: the script, and the cells run and values logged
\* that the claim expects.  C is compiled at 0..c-1, falsyBranch and its
\* offset at c and c+1, A from c+2, branch and its offset after A, then B,
\* then R
IfElse(C, a, b, r, inDef) ==
    LET c == Len(C)
        rAt == c + 2 * a + 4 + 2 * b
    IN  [script |-> Source(InDefinition(inDef,
                        C \o <<"if">> \o LogWords(ANumbers, a) \o <<"else">>
                          \o LogWords(BNumbers, b) \o <<"endif">> \o LogWords(RNumbers, r))),
         inDef |-> inDef,
         cells |-> IF Truthy(C)
                   THEN FromTo(0, c) \o FromTo(c + 2, c + 2 * a + 2)
                            \o FromTo(rAt, rAt + 2 * r - 1)
                   ELSE FromTo(0, c) \o FromTo(c + 2 * a + 4, rAt + 2 * r - 1),
         emitted |-> (IF Truthy(C) THEN Logged(ANumbers, a) ELSE Logged(BNumbers, b))
                        \o Logged(RNumbers, r)]

\* `C if A endif R`
IfOnly(C, a, r, inDef) ==
    LET c == Len(C) IN
    [script |-> Source(InDefinition(inDef,
                    C \o <<"if">> \o LogWords(ANumbers, a) \o <<"endif">>
                      \o LogWords(RNumbers, r))),
     inDef |-> inDef,
     cells |-> IF Truthy(C)
               THEN FromTo(0, c) \o FromTo(c + 2, c + 2 * a + 2 * r + 1)
               ELSE FromTo(0, c) \o FromTo(c + 2 * a + 2, c + 2 * a + 2 * r + 1),
     emitted |-> (IF Truthy(C) THEN Logged(ANumbers, a) ELSE <<>>) \o Logged(RNumbers, r)]

FamilyC6 ==
    {IfElse(C, a, b, r, inDef) :
        C \in Conditions, a \in 0..MaxLogs, b \in 0..MaxLogs, r \in 0..1,
        inDef \in BOOLEAN}
    \cup {IfOnly(C, a, r, inDef) :
        C \in Conditions, a \in 0..MaxLogs, r \in 0..1, inDef \in BOOLEAN}

Next_C6 == Load({<<f.script>> : f \in FamilyC6}) \/ Run \/ Execute \/ Interpret \/ Return
Spec_C6 == Init /\ [][Next_C6]_vars

\* C6: a finished script `C if A else B endif R` or `C if A endif R`, in a
\* definition or at top level, has raised no error and has run, after C and
\* falsyBranch, exactly the cells of A, the branch after A and R when the
\* value of C is truthy, and exactly the cells of B (none without else) and
\* R when it is falsy, each once and in order, logging what those cells log
C6_ExactlyOneBranchRuns ==
    \A c \in Contexts : \A f \in FamilyC6 :
        (phase = "ready" /\ ctxs[c].inputStream = f.script /\ Finished(c))
            => /\ ctxs[c].error = ""
               /\ CellsRun(c, IF f.inDef THEN EntryOf("w") ELSE ctxs[c].base) = f.cells
               /\ ctxs[c].emitted = f.emitted
               /\ ctxs[c].parameterStack = <<>>

\* a halted definition whose condition was NaN: B and R ran, A did not
C6_Witness ==
    \E c \in Contexts :
        /\ phase = "ready" /\ ctxs[c].halted
        /\ ctxs[c].inputStream = IfElse(<<"0", "0", "/">>, 2, 1, 1, TRUE).script
        /\ ctxs[c].emitted = <<Num(2), Num(3)>>
        /\ CellsRun(c, EntryOf("w")) = <<0, 1, 2, 3, 11, 12, 13, 14>>

(***************************************************************************)
(* begin / until                                                           *)
(***************************************************************************)
\* the loops run at most MaxN times
MaxN == 3
NumberWord(n) == <<"-1", "0", "1", "2", "3", "4", "5", "6", "7", "8", "9", "10">>[n + 2]
FalsyWords == <<"false", "0", "undefined", "false", "0", "undefined">>
Times(n, cells) == Flatten([k \in 1..n |-> cells])

\* `: count begin 1 - dup 1 < until 9 log ; n count`
CountFrom(n) ==
    LET times == IF n >= 1 THEN n ELSE 1 IN
    [script |-> Source(<<":", "count", "begin", "1", "-", "dup", "1", "<", "until",
                         "9", "log", ";", NumberWord(n), "count">>),
     inDef |-> TRUE, name |-> "count", beginAt |-> 0, untilAt |-> 5, times |-> times,
     cells |-> Times(times, FromTo(0, 5)) \o <<7, 8>>,
     emitted |-> <<Num(9)>>,
     stack |-> <<Num(IF n >= 1 THEN 0 ELSE n - 1)>>]

\* `begin 1 log until 9 log` run on a stack of `falsy` falsy values above true
Until(falsy, inDef) ==
    LET conds == <<"true">> \o SubSeq(FalsyWords, 1, falsy)
        loop == <<"begin", "1", "log", "until", "9", "log">>
        at == IF inDef THEN 0 ELSE falsy + 1
    IN  [script |-> Source(IF inDef THEN <<":", "w">> \o loop \o <<";">> \o conds \o <<"w">>
                           ELSE conds \o loop),
         inDef |-> inDef, name |-> "w", beginAt |-> at, untilAt |-> at + 2,
         times |-> falsy + 1,
         cells |-> (IF inDef THEN <<>> ELSE FromTo(0, falsy))
                    \o Times(falsy + 1, FromTo(at, at + 2)) \o <<at + 4, at + 5>>,
         emitted |-> Times(falsy + 1, <<Num(1)>>) \o <<Num(9)>>,
         stack |-> <<>>]

FamilyC7 ==
    {CountFrom(n) : n \in (-1)..MaxN}
    \cup {Until(falsy, inDef) : falsy \in 0..(MaxN - 1), inDef \in BOOLEAN}

Next_C7 == Load({<<f.script>> : f \in FamilyC7}) \/ Run \/ Execute \/ Interpret \/ Return
Spec_C7 == Init /\ [][Next_C7]_vars

LoopEntry(c, f) == IF f.inDef THEN EntryOf(f.name) ELSE ctxs[c].base

\* context c is about to run the falsyBranch compiled by `until` in f
AtUntil(c, f) ==
    /\ phase = "ready" /\ ctxs[c].inputStream = f.script
    /\ callStack # <<>> /\ Current = c /\ Running(World, c)
    /\ ctxs[c].returnStack # <<>>
    /\ Last(ctxs[c].returnStack) = [dictionaryEntry |-> LoopEntry(c, f), i |-> f.untilAt]

\* C7: each time `until` pops a falsy value execution continues at the first
\* cell after `begin`, and when it pops a truthy value at the cell after the
\* loop; a finished script has raised no error and has run the body the
\* expected number of times, at least once, and then the cells after the
\* loop; `count` applied to n >= 1 has run its body n times and leaves 0
C7_UntilLoops ==
    /\ [][\A c \in Contexts \cap (1..Len(ctxs')) : \A f \in FamilyC7 :
            AtUntil(c, f)
                => /\ ctxs'[c].error = ""
                   /\ ctxs'[c].returnStack # <<>>
                   /\ Last(ctxs'[c].returnStack) =
                        [dictionaryEntry |-> LoopEntry(c, f),
                         i |-> IF Last(ctxs[c].parameterStack)
                                    \in {Bool(FALSE), Num(0), Undef, Null, NaN}
                               THEN f.beginAt ELSE f.untilAt + 2]
       ]_vars
    /\ [](\A c \in Contexts : \A f \in FamilyC7 :
            (phase = "ready" /\ ctxs[c].inputStream = f.script /\ Finished(c))
                => /\ ctxs[c].error = ""
                   /\ CellsRun(c, LoopEntry(c, f)) = f.cells
                   /\ Len(SelectSeq(ctxs[c].trace,
                            LAMBDA t : t = <<LoopEntry(c, f), f.beginAt>>)) = f.times
                   /\ f.times >= 1
                   /\ ctxs[c].emitted = f.emitted
                   /\ ctxs[c].parameterStack = f.stack)

\* `3 count` has halted, leaving 0 after three runs of the body
C7_Witness ==
    \E c \in Contexts :
        /\ phase = "ready" /\ ctxs[c].halted
        /\ ctxs[c].inputStream = CountFrom(3).script
        /\ ctxs[c].parameterStack = <<Num(0)>>
        /\ Len(SelectSeq(ctxs[c].trace, LAMBDA t : t = <<EntryOf("count"), 0>>)) = 3

(***************************************************************************)
(* Nested control structures                                               *)
(***************************************************************************)
\* control words are nested at most MaxDepth deep
MaxDepth == 2
Atoms == {<<>>, <<"1", "log">>}
Countdown == <<"1", "-", "dup", "1", "<">>

RECURSIVE Nested(_)
\* the bodies built from if/else/endif, begin/until and begin/again nested at
\* most n deep; every loop ends (by `true until`, by counting down from 2,
\* or by `exit`)
Nested(n) ==
    IF n = 0 THEN Atoms
    ELSE LET inner == Nested(n - 1) IN
         Atoms
         \cup {<<c, "if">> \o S \o <<"endif">> : c \in {"true", "false"}, S \in inner}
         \cup {<<"true", "if">> \o S \o <<"else", "2", "log", "endif">> : S \in inner}
         \cup {<<"false", "if", "2", "log", "else">> \o S \o <<"endif">> : S \in inner}
         \cup {<<"begin">> \o S \o <<"true", "until">> : S \in inner}
         \cup {<<"2", "begin">> \o S \o Countdown \o <<"until", "drop">> : S \in inner}
         \cup {<<"2", "begin">> \o S \o Countdown
                    \o <<"if", "drop", "exit", "endif", "again">> : S \in inner}

SuiteC8 ==
    {<<Source(InDefinition(inDef, S \o <<"3", "log">>))>> :
        S \in Nested(MaxDepth) \ {<<>>}, inDef \in BOOLEAN}

Next_C8 == Load(SuiteC8) \/ Run \/ Execute \/ Interpret \/ Return
Spec_C8 == Init /\ [][Next_C8]_vars

\* entry e is not being compiled: it is the target of no context, or the
\* base entry of a context whose end of input has started it
DoneCompiling(e) ==
    \A c \in Contexts :
        (\E k \in 1..Len(ctxs[c].compilationStack) : ctxs[c].compilationStack[k] = e)
            => (e = ctxs[c].base /\ ctxs[c].didExecuteAndEnd)

\* C8: every frame on a return stack has its index within 0..compiled.length
\* of its entry; and in every entry that is not being compiled, each cell
\* after a branch or falsyBranch cell is a number other than the placeholder
\* 0, and the index of that cell plus the number lies within
\* 0..compiled.length of the entry
C8_BranchTargetsInRange ==
    /\ \A c \in Contexts : \A k \in 1..Len(ctxs[c].returnStack) :
            LET frame == ctxs[c].returnStack[k] IN
            frame.i >= 0 /\ frame.i <= Len(Compiled(World, frame.dictionaryEntry))
    /\ \A e \in 1..Len(dict) :
            DoneCompiling(e) =>
                \A k \in 1..Len(Compiled(World, e)) :
                    Compiled(World, e)[k] \in {Prim("branch"), Prim("falsyBranch")}
                        => /\ k < Len(Compiled(World, e))
                           /\ Compiled(World, e)[k + 1][1] = "num"
                           /\ Compiled(World, e)[k + 1][2] # 0
                           /\ k + Compiled(World, e)[k + 1][2] >= 0
                           /\ k + Compiled(World, e)[k + 1][2] <= Len(Compiled(World, e))

\* a definition with an if nested in a loop nested in an if has halted after
\* a backward and a forward jump
C8_Witness ==
    \E c \in Contexts :
        /\ phase = "ready" /\ ctxs[c].halted /\ ctxs[c].error = ""
        /\ EntryOf("w") # 0
        /\ Len(Compiled(World, EntryOf("w"))) >= 12
        /\ Cardinality({k \in 1..Len(Compiled(World, EntryOf("w"))) :
                Compiled(World, EntryOf("w"))[k] \in {Prim("branch"), Prim("falsyBranch")}}) >= 3
        /\ \E k \in 1..(Len(ctxs[c].trace) - 1) :
                /\ ctxs[c].trace[k][1] = EntryOf("w") /\ ctxs[c].trace[k + 1][1] = EntryOf("w")
                /\ ctxs[c].trace[k + 1][2] < ctxs[c].trace[k][2]
        /\ \E k \in 1..(Len(ctxs[c].trace) - 1) :
                /\ ctxs[c].trace[k][1] = EntryOf("w") /\ ctxs[c].trace[k + 1][1] = EntryOf("w")
                /\ ctxs[c].trace[k + 1][2] > ctxs[c].trace[k][2] + 2

(***************************************************************************)
(* each / endeach                                                          *)
(***************************************************************************)
\* the arrays looped over have at most MaxLen elements
MaxLen == 2
ElementWords == <<"3", "5", "7", "4", "6">>
Literal(n) == <<"[">> \o SubSeq(ElementWords, 1, n) \o <<"]">>
Elements(n) == [k \in 1..n |-> wordAsPrimitive(Spell(ElementWords[k])).value]

\* `[ 3 5 ] each I log endeach 9 log`, in the definition w or at top level.
\* each compiles seven cells (guard, clone, >control, 0, >control, primer,
\* null) before the body
Each(n, inDef) ==
    LET loop == <<"each", "I", "log", "endeach", "9", "log">> IN
    [script |-> Source(IF inDef THEN <<":", "w">> \o loop \o <<";">> \o Literal(n) \o <<"w">>
                       ELSE Literal(n) \o loop),
     inDef |-> inDef, n |-> n, elements |-> Elements(n),
     bodyAt |-> IF inDef THEN 7 ELSE 8]

FamilyC9 == {Each(n, inDef) : n \in 0..MaxLen, inDef \in BOOLEAN}

Next_C9 == Load({<<f.script>> : f \in FamilyC9}) \/ Run \/ Execute \/ Interpret \/ Return
Spec_C9 == Init /\ [][Next_C9]_vars

\* how many times context c ran the cell at index i of entry e
TimesRun(c, e, i) == Len(SelectSeq(ctxs[c].trace, LAMBDA t : t = <<e, i>>))

\* a finished loop over f.elements ran its body once per element, `I`
\* yielding the elements in order, and went on after endeach
RanOncePerElement(c, f) ==
    (phase = "ready" /\ ctxs[c].inputStream = f.script /\ Finished(c))
        => /\ ctxs[c].error = ""
           /\ TimesRun(c, IF f.inDef THEN EntryOf("w") ELSE ctxs[c].base, f.bodyAt) = f.n
           /\ ctxs[c].emitted = f.elements \o <<Num(9)>>
           /\ ctxs[c].controlStack = <<>>

\* C9 as stated: with an array of length n >= 0 on top of the stack, the
\* body between each and endeach runs exactly n times, the k-th time with I
\* yielding the element at index k-1, and execution continues after endeach
C9_BodyRunsOncePerElement ==
    \A c \in Contexts : \A f \in FamilyC9 : RanOncePerElement(c, f)

\* the same for the arrays that are not empty
NonEmptyBodyRunsOncePerElement ==
    \A c \in Contexts : \A f \in FamilyC9 : f.n >= 1 => RanOncePerElement(c, f)

\* a loop over the empty array has finished after running its body once,
\* with I yielding undefined
C9_Witness ==
    \E c \in Contexts :
        /\ phase = "ready" /\ ctxs[c].halted /\ ctxs[c].error = ""
        /\ ctxs[c].inputStream = Each(0, TRUE).script
        /\ TimesRun(c, EntryOf("w"), 7) = 1
        /\ ctxs[c].emitted = <<Undef, Num(9)>>

\* `[ 3 5 ] dup each M I log endeach`, in the definition w or at top level,
\* where M pushes 9 to the caller's array (`dup 9 push`), pops from it
\* (`dup pop drop`) or is empty; the caller's array stays on the stack
Mutations == {"push", "pop"}
MutationWords(m) ==
    CASE m = "push" -> <<"dup", "9", "push">>
      [] m = "pop" -> <<"dup", "pop", "drop">>
      [] OTHER -> <<>>
EachOfCallers(n, m, inDef) ==
    LET loop == <<"dup", "each">> \o MutationWords(m) \o <<"I", "log", "endeach">> IN
    Source(IF inDef THEN <<":", "w">> \o loop \o <<";">> \o Literal(n) \o <<"w">>
           ELSE Literal(n) \o loop)
FamilyC10 ==
    {[mutating |-> EachOfCallers(n, m, inDef), plain |-> EachOfCallers(n, "none", inDef),
      n |-> n, m |-> m, elements |-> Elements(n), inDef |-> inDef,
      bodyAt |-> IF inDef THEN 8 ELSE 9] :
        n \in 0..MaxLen, m \in Mutations, inDef \in BOOLEAN}

Next_C10 ==
    Load({<<f.mutating, f.plain>> : f \in FamilyC10}) \/ Run \/ Execute \/ Interpret \/ Return
Spec_C10 == Init /\ [][Next_C10]_vars

\* the array context c has left on its parameter stack
CallersArray(c) == heap[Last(ctxs[c].parameterStack)[2]]

\* `elements` after `times` runs of the mutation m
Mutated(elements, m, times) ==
    IF m = "push" THEN elements \o Times(times, <<Num(9)>>)
    ELSE SubSeq(elements, 1, IF times > Len(elements) THEN 0 ELSE Len(elements) - times)

\* C10: a loop whose body pushes to or pops from the caller's array never
\* yields more elements than the array had when the loop started; when it
\* and the same loop without the mutation have finished, both have raised
\* no error, have run their bodies the same number of times and `I` has
\* yielded the same elements (those of the array, if it was not empty); the
\* caller's array of the plain loop is unchanged, and that of the mutating
\* loop is changed by its body alone
C10_EachIteratesOverClone ==
    \A f \in FamilyC10 :
        (phase = "ready" /\ Len(ctxs) >= 1 /\ ctxs[1].inputStream = f.mutating)
            => /\ Len(ctxs[1].emitted) <= (IF f.n = 0 THEN 1 ELSE f.n)
               /\ (BothFinished /\ ctxs[2].inputStream = f.plain)
                    => /\ ctxs[1].error = "" /\ ctxs[2].error = ""
                       /\ ctxs[1].emitted = ctxs[2].emitted
                       /\ f.n >= 1 => ctxs[1].emitted = f.elements
                       /\ TimesRun(1, IF f.inDef THEN Shadowed("w") ELSE ctxs[1].base, f.bodyAt)
                            = TimesRun(2, IF f.inDef THEN EntryOf("w") ELSE ctxs[2].base,
                                       f.bodyAt)
                       /\ Len(ctxs[1].parameterStack) = 1 /\ Len(ctxs[2].parameterStack) = 1
                       /\ CallersArray(2) = f.elements
                       /\ CallersArray(1) = Mutated(f.elements, f.m, Len(ctxs[1].emitted))

\* both loops over [3, 5] have finished, the mutating one having pushed 9
\* twice to the caller's array while I yielded 3 and 5
C10_Witness ==
    /\ BothFinished
    /\ ctxs[1].inputStream = EachOfCallers(2, "push", TRUE)
    /\ ctxs[1].emitted = <<Num(3), Num(5)>>
    /\ CallersArray(1) = <<Num(3), Num(5), Num(9), Num(9)>>
    /\ CallersArray(2) = <<Num(3), Num(5)>>

(***************************************************************************)
(* Array literals                                                          *)
(***************************************************************************)
\* `[] dup 3 push dup 5 push`: push takes the array off the stack
Built(n) == <<"[]">> \o Flatten([k \in 1..n |-> <<"dup", ElementWords[k], "push">>])

\* `: w A ; w M w`: the word w, whose body A is an array literal or the same
\* array built with [] and push, runs twice; between the runs M pushes 9 to
\* the array the first run yielded, pops from it, or does nothing
Twice(array, m) ==
    Source(<<":", "w">> \o array \o <<";", "w">> \o MutationWords(m) \o <<"w">>)
FamilyC11 ==
    {[literal |-> Twice(Literal(n), m), built |-> Twice(Built(n), m),
      n |-> n, m |-> m, elements |-> Elements(n)] :
        n \in 0..MaxLen, m \in Mutations \cup {"none"}}

Next_C11 ==
    Load({<<f.literal>> : f \in FamilyC11} \cup {<<f.built>> : f \in FamilyC11})
        \/ Run \/ Execute \/ Interpret \/ Return
Spec_C11 == Init /\ [][Next_C11]_vars

\* context c has run `script` to its end and the array on top of its stack,
\* the one the second run of w yielded, holds exactly `elements`
YieldsAgain(c, script, elements) ==
    (phase = "ready" /\ ctxs[c].inputStream = script /\ Finished(c))
        => /\ ctxs[c].error = ""
           /\ Len(ctxs[c].parameterStack) = 2
           /\ CallersArray(c) = elements

\* C11 as stated: an array literal [ v1 .. vn ] yields an array holding
\* exactly v1..vn every time its cell is executed, as [] followed by pushing
\* v1..vn does, also when the enclosing word runs again after the array an
\* earlier run yielded has been mutated with push or pop
C11_LiteralYieldsItsElements ==
    \A c \in Contexts : \A f \in FamilyC11 : YieldsAgain(c, f.literal, f.elements)

\* the array built with [] and push holds exactly v1..vn on every run
BuiltYieldsItsElements ==
    \A c \in Contexts : \A f \in FamilyC11 : YieldsAgain(c, f.built, f.elements)

\* the literal holds exactly v1..vn as long as no earlier yield was mutated
UnmutatedLiteralYieldsItsElements ==
    \A c \in Contexts : \A f \in FamilyC11 :
        f.m = "none" => YieldsAgain(c, f.literal, f.elements)

\* both runs of a literal yield one and the same array, the one ] compiled
LiteralIsShared ==
    \A c \in Contexts : \A f \in FamilyC11 :
        (phase = "ready" /\ ctxs[c].inputStream = f.literal /\ Finished(c))
            => ctxs[c].parameterStack[1] = ctxs[c].parameterStack[2]

\* w, defined as [ 3 5 ], has run twice with `dup 9 push` in between, and
\* its second run has yielded [3, 5, 9]
C11_Witness ==
    \E c \in Contexts :
        /\ phase = "ready" /\ Finished(c) /\ ctxs[c].error = ""
        /\ ctxs[c].inputStream = Twice(Literal(2), "push")
        /\ CallersArray(c) = <<Num(3), Num(5), Num(9)>>

(***************************************************************************)
(* sleep                                                                   *)
(***************************************************************************)
\* the delays slept are at most MaxDelay
MaxDelay == 2

\* scripts that sleep d: at top level with values on the stack, as the last
\* cell, in a definition, in a definition called by a definition, in an
\* until loop, and with the control stack in use
Sleepers(d) ==
    LET D == NumberWord(d) IN
    { <<"7", D, "sleep", "2", "log">>,
      <<D, "sleep">>,
      <<":", "w", D, "sleep", ";", "w">>,
      <<":", "w", "7", D, "sleep", "2", "log", ";", "w", "3", "log">>,
      <<":", "inner", D, "sleep", "3", ";", ":", "outer", "4", "inner", "5", ";", "outer">>,
      <<":", "w", "2", "begin", D, "sleep", "1", "-", "dup", "1", "<", "until", ";", "w">>,
      <<"[", "3", "5", "]", "each", D, "sleep", "I", "log", "endeach">> }

\* a script that sleeps run alone, or followed by a second script that
\* sleeps no longer
SuiteC12 ==
    UNION {{<<Source(s)>> : s \in Sleepers(d)} : d \in 0..MaxDelay}
        \cup {<<Source(<<"7", NumberWord(d), "sleep", "2", "log">>),
                Source(<<NumberWord(e), "sleep", "4", "log">>)>> :
                    d \in 1..MaxDelay, e \in 0..(MaxDelay - 1)}
        \cup {<<Source(<<"7", NumberWord(d), "sleep", "2", "log">>),
                Source(<<"3", "log">>)>> : d \in 0..MaxDelay}

\* the contexts the host creates for the scripts of a suite
ContextsOf(suites) == UNION {DOMAIN suite : suite \in suites}

Next_C12 == Load(SuiteC12) \/ Run \/ Execute \/ Interpret \/ Return \/ Timeout
Spec_C12 == Init /\ [][Next_C12]_vars

\* an iteration of the loop of query is possible
InLoop == callStack # <<>> /\ Running(World, Current)

\* weak fairness of the iterations of the loop of query, Execute and
\* Interpret, which are the steps possible when InLoop holds: a call of
\* query goes on until its loop ends
LoopGoesOn == []<>(~InLoop) \/ []<><<InLoop>>_vars

\* the event loop runs the callback of a timer that is due, and a call of
\* query runs its loop and returns; the host need not run a script
FairSpec_C12 == Spec_C12 /\ WF_vars(Timeout) /\ LoopGoesOn /\ WF_vars(Return)

\* a timer set by context c is pending
Sleeping(c) == \E k \in 1..Len(timers) : timers[k].ctx = c

\* the cell context c ran last
LastCell(c) == At(heap[dict[Last(ctxs[c].trace)[1]].compiled], Last(ctxs[c].trace)[2])

\* context c has run a cell in this step, and the cell was `sleep`
RanSleep(c) ==
    /\ Len(ctxs'[c].trace) > Len(ctxs[c].trace)
    /\ LastCell(c)' = Prim("sleep")
    /\ ctxs'[c].error = ""

\* the callback of the timer of context c runs in this step
TimerFires(c) ==
    /\ callStack = <<>>
    /\ callStack' = <<[ctx |-> c, caller |-> "timer"]>>
    /\ ~Sleeping(c)'

\* C12: a step that executes `sleep` sets paused and a timer; while the
\* timer is pending the context is paused, its frame is at the cell after
\* `sleep`, and the only step that changes the context is the callback,
\* which runs after the call of query has returned and clears paused
\* leaving stacks, frames and cursor as they were; the next cell the context
\* runs is the one after `sleep`; and a context that sleeps eventually halts
C12_SleepPausesAndResumes ==
    /\ [][\A c \in Contexts \cap (1..Len(ctxs')) :
            /\ RanSleep(c) => (ctxs'[c].paused /\ Sleeping(c)' /\ ~Running(World, c)')
            /\ Sleeping(c) =>
                 \/ ctxs'[c] = ctxs[c] /\ Sleeping(c)'
                 \/ TimerFires(c) /\ ctxs'[c] = [ctxs[c] EXCEPT !.paused = FALSE]
            /\ (/\ ctxs[c].trace # <<>>
                /\ LastCell(c) = Prim("sleep")
                /\ Len(ctxs'[c].trace) > Len(ctxs[c].trace))
                 => /\ ~Sleeping(c)
                    /\ Last(ctxs'[c].trace)
                         = <<Last(ctxs[c].trace)[1], Last(ctxs[c].trace)[2] + 1>>]_vars
    /\ [](\A c \in Contexts :
            Sleeping(c) =>
                /\ ctxs[c].paused /\ ~ctxs[c].halted
                /\ LastCell(c) = Prim("sleep")
                /\ peekReturnStack(World, c)
                     = [dictionaryEntry |-> Last(ctxs[c].trace)[1],
                        i |-> Last(ctxs[c].trace)[2] + 1])
    /\ \A c \in ContextsOf(SuiteC12) :
          (c \in Contexts /\ Sleeping(c)) ~> (c \in Contexts /\ ctxs[c].halted)

\* the script `7 2 sleep 2 log` has slept, its callback has run while a
\* second script was asleep, and it has halted having logged 2 with 7 on
\* its stack
C12_Witness ==
    /\ phase = "ready" /\ Len(ctxs) = 2
    /\ ctxs[1].inputStream = Source(<<"7", "2", "sleep", "2", "log">>)
    /\ ctxs[1].halted /\ ctxs[1].error = ""
    /\ ctxs[1].parameterStack = <<Num(7)>> /\ ctxs[1].emitted = <<Num(2)>>
    /\ clock = 2
    /\ ctxs[2].halted

(***************************************************************************)
(* Cancellation                                                            *)
(***************************************************************************)
\* host code, which runs when no call of query is active, cancels a context
\* by setting the field `halted` or by calling ctx.halt()
HostHalts ==
    /\ phase = "ready"
    /\ callStack = <<>>
    /\ \E c \in Contexts : \E call \in BOOLEAN :
          /\ ~ctxs[c].halted
          /\ Commit(IF call THEN halt(World, c) ELSE [World EXCEPT !.ctxs[c].halted = TRUE], c)
    /\ UNCHANGED <<phase, pending>>

Next_C13 == Load(SuiteC12) \/ Run \/ Execute \/ Interpret \/ Return \/ Timeout \/ HostHalts
Spec_C13 == Init /\ [][Next_C13]_vars

\* C13: from a state in which a context is halted, by the engine or by the
\* host, also while it is paused by `sleep`, no step runs a cell of the
\* context, consumes its input, or changes its stacks; the context stays
\* halted, also through the callback of a pending timer
C13_HaltedStaysStopped ==
    [][\A c \in Contexts \cap (1..Len(ctxs')) :
          ctxs[c].halted
            => /\ ctxs'[c].halted
               /\ ctxs'[c].trace = ctxs[c].trace
               /\ ctxs'[c].inputStreamPointer = ctxs[c].inputStreamPointer
               /\ ctxs'[c].parameterStack = ctxs[c].parameterStack
               /\ ctxs'[c].returnStack = ctxs[c].returnStack
               /\ ctxs'[c].emitted = ctxs[c].emitted
               /\ heap'[dict[ctxs[c].base].compiled] = heap[dict[ctxs[c].base].compiled]]_vars

\* `7 2 sleep 2 log` was halted by the host while it slept; the callback of
\* its timer has run and that call of query has returned, with the cells
\* after `sleep` not run
C13_Witness ==
    \E c \in Contexts :
        /\ phase = "ready" /\ callStack = <<>>
        /\ ctxs[c].inputStream = Source(<<"7", "2", "sleep", "2", "log">>)
        /\ ctxs[c].halted /\ ~ctxs[c].paused /\ ~Sleeping(c)
        /\ LastCell(c) = Prim("sleep")
        /\ ctxs[c].returnStack = <<[dictionaryEntry |-> ctxs[c].base, i |-> 3]>>
        /\ ctxs[c].emitted = <<>> /\ ctxs[c].parameterStack = <<Num(7)>>

(***************************************************************************)
(* Several contexts                                                        *)
(***************************************************************************)
\* scripts that define a word with a loop, a variable or a word that sleeps
\* and then sleep with values on their stacks
Definers ==
    { <<":", "w", "each", "I", "log", "endeach", ";", "[", "3", "]", "2", "sleep", "w">>,
      <<":", "w", "each", "I", "log", "endeach", ";", "7", "2", "sleep", "drop">>,
      <<"var:", "v", "5", "v", "!", "2", "sleep", "v", "@">>,
      <<":", "w", "7", "1", "sleep", "2", "log", ";", "w", "3", "log">> }

\* scripts that use the words of the first script, started while it sleeps
Users ==
    { <<"[", "5", "]", "w", "1", "sleep", "4", "log">>,
      <<"[", "5", "]", "w", "3", "sleep", "4", "log">>,
      <<"9", "v", "!", "1", "sleep", "v", "@">>,
      <<":", "w", "8", ";", "3", "sleep", "w">>,
      <<"w", "4", "log">> }

SuiteC14 == {<<Source(d), Source(u)>> : d \in Definers, u \in Users}

Next_C14 == Load(SuiteC14) \/ Run \/ Execute \/ Interpret \/ Return \/ Timeout
Spec_C14 == Init /\ [][Next_C14]_vars

\* the context whose call of query a step belongs to: the one running, or
\* the one the step starts (a new context, the context of a timer)
Actor ==
    IF callStack # <<>> THEN Current
    ELSE IF callStack' # <<>> THEN Last(callStack').ctx
    ELSE 0

\* the stacks, cursor and flags of context c
Private(c) ==
    <<ctxs[c].parameterStack, ctxs[c].returnStack, ctxs[c].controlStack,
      ctxs[c].compilationStack, ctxs[c].inputStreamPointer, ctxs[c].inputStream,
      ctxs[c].halted, ctxs[c].paused, ctxs[c].executeAtEnd, ctxs[c].didExecuteAndEnd>>

MaxFirings == 2

\* the event of a listener is dispatched while no call of query is active:
\* the listener added by `on` calls query on a new context with the event on
\* the parameter stack, the handler entry on the return stack and
\* executeAtEnd false
Fire ==
    /\ phase = "ready"
    /\ callStack = <<>>
    /\ \E k \in 1..Len(listeners) :
          /\ Len(listeners[k].fired) < MaxFirings
          /\ Commit([newCtx(World) EXCEPT
                       !.ctxs[NewCtxId(World)].me = listeners[k].target,
                       !.ctxs[NewCtxId(World)].executeAtEnd = FALSE,
                       !.ctxs[NewCtxId(World)].parameterStack =
                            <<<<"event", listeners[k].event>>>>,
                       !.ctxs[NewCtxId(World)].returnStack =
                            <<[dictionaryEntry |-> listeners[k].dictionaryEntry, i |-> 0]>>,
                       !.listeners[k].fired = Append(@, NewCtxId(World)),
                       !.callStack = <<[ctx |-> NewCtxId(World), caller |-> "listener"]>>],
                    NewCtxId(World))
    /\ UNCHANGED <<phase, pending>>

\* handler bodies, the cells they compile to and what they log
Handlers ==
    { [body |-> <<>>, cells |-> <<>>, logged |-> <<>>],
      [body |-> <<"1", "log">>, cells |-> <<Num(1), Prim("log")>>, logged |-> <<Num(1)>>],
      [body |-> <<"1", "log", "2", "log">>,
       cells |-> <<Num(1), Prim("log"), Num(2), Prim("log")>>, logged |-> <<Num(1), Num(2)>>] }

\* `B on click H E`: the handler H registered after the statements B, closed
\* by E = `;` or by the end of the attribute
FamilyC15 ==
    {[script |-> Source(before \o <<"on", "click">> \o h.body \o end),
      before |-> before, handler |-> h, closed |-> end # <<>>] :
        before \in {<<>>, <<"7">>}, h \in Handlers, end \in {<<>>, <<";">>}}

Next_C15 ==
    LoadBrowser({<<f.script>> : f \in FamilyC15})
        \/ RunAttributes \/ Execute \/ Interpret \/ Return \/ Fire
Spec_C15 == Init /\ [][Next_C15]_vars

\* the cells of entry e from 0 to its end, each once and in order
OnceThrough(e) == [i \in 1..Len(heap[dict[e].compiled]) |-> <<e, i - 1>>]

\* the contexts made by firings
Fired == UNION {{listeners[k].fired[j] : j \in 1..Len(listeners[k].fired)} :
                  k \in 1..Len(listeners)}

\* C15 as stated: the attribute registers its handler, and each firing runs
\* the cells of the handler body from the first to the last exactly once in
\* a new context that then halts, having compiled and executed no input,
\* whether or not the body was closed by `;`
C15_FiringRunsHandlerOnce ==
    \A f \in FamilyC15 :
        (phase = "ready" /\ callStack = <<>> /\ Len(ctxs) >= 1
            /\ ctxs[1].inputStream = f.script)
          => /\ ctxs[1].error = ""
             /\ \A k \in 1..Len(listeners) : \A j \in 1..Len(listeners[k].fired) :
                  LET c == listeners[k].fired[j] IN
                  /\ heap[dict[listeners[k].dictionaryEntry].compiled] = f.handler.cells
                  /\ ctxs[c].halted /\ ctxs[c].error = ""
                  /\ ctxs[c].trace = OnceThrough(listeners[k].dictionaryEntry)
                  /\ ctxs[c].emitted = f.handler.logged
                  /\ ctxs[c].inputStreamPointer = 0
                  /\ heap[dict[ctxs[c].base].compiled] = <<>>

\* what holds of a firing: the new context runs the handler entry as it is,
\* once from cell 0 to its end, and halts, having compiled no input; the
\* context that registered the listener is left as it was
FiringRunsEntryOnce ==
    /\ [][\A c \in Contexts : (Actor \in Fired' /\ c # Actor) => ctxs'[c] = ctxs[c]]_vars
    /\ [](\A k \in 1..Len(listeners) : \A j \in 1..Len(listeners[k].fired) :
            LET c == listeners[k].fired[j] IN
            callStack = <<>>
              => /\ ctxs[c].halted /\ ctxs[c].error = ""
                 /\ ctxs[c].trace = OnceThrough(listeners[k].dictionaryEntry)
                 /\ ctxs[c].inputStreamPointer = 0
                 /\ heap[dict[ctxs[c].base].compiled] = <<>>)

\* a handler with a body is never compiled: the token after `on click`
\* finds undefined on top of the compilation stack
BodyIsNotCompiled ==
    \A f \in FamilyC15 :
        (phase = "ready" /\ callStack = <<>> /\ Len(ctxs) >= 1
            /\ ctxs[1].inputStream = f.script /\ (f.handler.body # <<>> \/ f.closed))
          => /\ ctxs[1].error = CompilationStackUnderflow
             /\ \A k \in 1..Len(listeners) : heap[dict[listeners[k].dictionaryEntry].compiled] = <<>>

\* the listener of `on click 1 log ;` has fired: its entry holds no cell, and
\* the new context has halted having run and logged nothing
C15_Witness ==
    /\ phase = "ready" /\ callStack = <<>> /\ Len(ctxs) = 2
    /\ ctxs[1].inputStream = Source(<<"on", "click", "1", "log", ";">>)
    /\ ctxs[1].error = CompilationStackUnderflow
    /\ Len(listeners) = 1 /\ listeners[1].fired = <<2>>
    /\ ctxs[2].halted /\ ctxs[2].trace = <<>> /\ ctxs[2].emitted = <<>>

(***************************************************************************)
(* wordToFunc:                                                             *)
(***************************************************************************)
\* the host calls each function at most MaxCalls times in all
MaxCalls == 2

\* the host calls a function made by wordToFunc: that it finds on the
\* parameter stack of a context: the function makes a new context with the
\* entry on the return stack and executeAtEnd false and calls query
Invoke ==
    /\ phase = "ready"
    /\ callStack = <<>>
    /\ Cardinality({c \in Contexts : ctxs[c].returned # NotCalled}) < MaxCalls
    /\ \E d \in Contexts : \E k \in 1..Len(ctxs[d].parameterStack) :
          LET fn == ctxs[d].parameterStack[k]
              new == NewCtxId(World)
              w1 == [newCtx(World) EXCEPT !.ctxs[new].returned = <<"pending">>,
                                          !.ctxs[new].executeAtEnd = FALSE]
          IN  /\ fn[1] = "wordfunc"
              /\ Commit(IF fn[2] = Undef THEN Throw(w1, "TypeError")
                        ELSE [w1 EXCEPT
                                !.ctxs[new].returnStack =
                                     <<[dictionaryEntry |-> fn[2][2], i |-> 0]>>,
                                !.callStack = <<[ctx |-> new, caller |-> "callable"]>>],
                        new)
    /\ UNCHANGED <<phase, pending>>

\* `P : w S ; : x 1 ; 9 wordToFunc: w`: the body S of w, the definitions P it
\* needs, the value the function made of w returns, whether the new context
\* has halted by then, and the stack the new context has once it has halted
Callables ==
    { [prelude |-> <<>>, body |-> <<"4", "2", "+">>,
       returned |-> Num(6), halts |-> TRUE, final |-> <<>>, top |-> Num(6)],
      [prelude |-> <<>>, body |-> <<>>,
       returned |-> Undef, halts |-> TRUE, final |-> <<>>, top |-> Undef],
      [prelude |-> <<>>, body |-> <<"7", "8">>,
       returned |-> Num(8), halts |-> TRUE, final |-> <<Num(7)>>, top |-> Num(8)],
      [prelude |-> <<":", "inner", "3", ";">>, body |-> <<"inner", "4", "+">>,
       returned |-> Num(7), halts |-> TRUE, final |-> <<>>, top |-> Num(7)],
      [prelude |-> <<>>, body |-> <<"1", "sleep", "5">>,
       returned |-> Undef, halts |-> FALSE, final |-> <<Num(5)>>, top |-> Num(5)],
      [prelude |-> <<>>, body |-> <<"7", "1", "sleep", "5">>,
       returned |-> Num(7), halts |-> FALSE, final |-> <<Num(5)>>, top |-> Num(5)] }

DefinesCallable(f) ==
    Source(f.prelude \o <<":", "w">> \o f.body
             \o <<";", ":", "x", "1", ";", "9", "wordToFunc:", "w">>)

Next_C16 ==
    Load({<<DefinesCallable(f)>> : f \in Callables})
        \/ Run \/ Execute \/ Interpret \/ Return \/ Timeout \/ Invoke
Spec_C16 == Init /\ [][Next_C16]_vars

\* the contexts made by calls of functions that have returned
Called == {c \in Contexts : ctxs[c].returned \notin {NotCalled, <<"pending">>}}

\* C16 as stated: when a call of the function made by `wordToFunc: w` has
\* returned, the new context has run w to its end and halted, and the value
\* returned is the one w left on top of its stack, undefined if none
C16_ReturnsTopAfterHalt ==
    \A f \in Callables : \A c \in Called :
        (phase = "ready" /\ ctxs[1].inputStream = DefinesCallable(f))
            => /\ ctxs[c].halted
               /\ ctxs[c].returned = f.top

\* C16 amended: the function runs w in a new context, with {entry, 0} on
\* the return stack and executeAtEnd false, until the call of query returns,
\* which is when the context has halted or, if w has executed `sleep`, when
\* it is paused; it returns the top of the stack of the new context at that
\* moment, undefined if the stack is empty; w later runs to its end in the
\* new context; no step of the new context changes the stacks of another
C16_ReturnsTopAtReturn ==
    /\ [][\A c \in Contexts \cap (1..Len(ctxs')) :
            (Actor # 0 /\ c # Actor /\ ctxs'[Actor].returned # NotCalled)
                => Private(c)' = Private(c)]_vars
    /\ [](\A f \in Callables : \A c \in Contexts :
            (phase = "ready" /\ ctxs[1].inputStream = DefinesCallable(f)
                /\ ctxs[c].returned # NotCalled)
              => /\ ctxs[c].error = ""
                 /\ ~ctxs[c].executeAtEnd /\ ~ctxs[c].didExecuteAndEnd
                 /\ ctxs[c].inputStreamPointer = 0
                 /\ heap[dict[ctxs[c].base].compiled] = <<>>
                 /\ ctxs[c].trace # <<>> => ctxs[c].trace[1] = <<EntryOf("w"), 0>>
                 /\ c \in Called
                      => /\ ctxs[c].returned = f.returned
                         /\ ctxs[c].halted \/ ctxs[c].paused \/ ~f.halts
                         /\ (f.halts /\ callStack = <<>>) => ctxs[c].halted
                 /\ (ctxs[c].halted /\ callStack = <<>>)
                      => /\ ctxs[c].parameterStack = f.final
                         /\ TimesRun(c, EntryOf("w"), Len(heap[dict[EntryOf("w")].compiled]) - 1)
                              = (IF f.body = <<>> THEN 0 ELSE 1)
                 /\ ctxs[1].parameterStack \in
                      {<<>>, <<<<"wordfunc", DictRef(EntryOf("w"))>>>>,
                       <<<<"wordfunc", DictRef(EntryOf("w"))>>, Num(9)>>})

\* the function made of `: w 7 1 sleep 5 ;` has been called and has returned
\* 7 with the new context paused; the context has since run to its end
C16_Witness ==
    \E c \in Called :
        /\ phase = "ready" /\ callStack = <<>>
        /\ ctxs[1].inputStream = DefinesCallable(
              [prelude |-> <<>>, body |-> <<"7", "1", "sleep", "5">>, returned |-> Num(7),
               halts |-> FALSE, final |-> <<Num(5)>>, top |-> Num(5)])
        /\ ctxs[c].returned = Num(7)
        /\ ctxs[c].halted /\ ctxs[c].parameterStack = <<Num(5)>>

(***************************************************************************)
(* Re-use of a halted context                                              *)
(***************************************************************************)
\* the host re-uses a halted context for its next script: it resets halted
\* and the input pointer, supplies the input and calls query again
Reuse ==
    /\ phase = "ready"
    /\ callStack = <<>>
    /\ pending # <<>>
    /\ \E c \in Contexts :
          /\ ctxs[c].halted
          /\ Commit([World EXCEPT !.ctxs[c].halted = FALSE,
                                  !.ctxs[c].inputStreamPointer = 0,
                                  !.ctxs[c].inputStream = Head(pending),
                                  !.callStack = <<[ctx |-> c, caller |-> "host"]>>], c)
    /\ pending' = Tail(pending)
    /\ UNCHANGED phase

\* a first script and a script for the second call of query, with the
\* values each pushes and the cells each compiles into the base entry
FirstInputs ==
    { [words |-> <<>>, pushes |-> <<>>, compiled |-> <<>>],
      [words |-> <<"1">>, pushes |-> <<Num(1)>>, compiled |-> <<Num(1)>>],
      [words |-> <<"1", "2", "+">>, pushes |-> <<Num(3)>>,
       compiled |-> <<Num(1), Num(2), Prim("+")>>] }
SecondInputs ==
    { [words |-> <<"2">>, pushes |-> <<Num(2)>>, compiled |-> <<Num(2)>>],
      [words |-> <<"3", "4", "+">>, pushes |-> <<Num(7)>>,
       compiled |-> <<Num(3), Num(4), Prim("+")>>],
      [words |-> <<"5", "6", "swap">>, pushes |-> <<Num(6), Num(5)>>,
       compiled |-> <<Num(5), Num(6), Prim("swap")>>] }
FamilyC17 == {[first |-> a, second |-> b] : a \in FirstInputs, b \in SecondInputs}

Next_C17 ==
    Load({<<Source(f.first.words), Source(f.second.words)>> : f \in FamilyC17})
        \/ Run \/ Reuse \/ Execute \/ Interpret \/ Return
Spec_C17 == Init /\ [][Next_C17]_vars

\* the second call of query on the one context, which ran the first script
\* of f and was re-used for the second, has returned
Reused(f) ==
    /\ phase = "ready" /\ callStack = <<>> /\ pending = <<>>
    /\ Len(ctxs) = 1
    /\ ctxs[1].inputStream = Source(f.second.words)
    /\ heap[dict[ctxs[1].base].compiled] = f.first.compiled \o f.second.compiled

\* C17 as stated: when the second call of query on the re-used context
\* returns, the words of the new input have been compiled and executed, and
\* what they push is on the parameter stack above what the first input left
C17_ReusedContextExecutes ==
    \A f \in FamilyC17 :
        Reused(f)
            => /\ ctxs[1].error = "" /\ ctxs[1].halted
               /\ ctxs[1].parameterStack = f.first.pushes \o f.second.pushes

\* what the second call does: it compiles the new words into the base entry
\* after those of the first input, halts at the end of the input without
\* running EXECUTE, and leaves the parameter stack as the first call left it
ReusedContextOnlyCompiles ==
    /\ \A f \in FamilyC17 :
          Reused(f)
            => /\ ctxs[1].error = "" /\ ctxs[1].halted
               /\ ctxs[1].didExecuteAndEnd
               /\ ctxs[1].parameterStack = f.first.pushes
               /\ Len(ctxs[1].trace) = Len(f.first.compiled)
    /\ (phase = "ready" /\ callStack = <<>> /\ pending = <<>> /\ Len(ctxs) = 1)
          => \E f \in FamilyC17 : Reused(f)

\* the context that ran `1` has been re-used for `2`: the second call has
\* compiled 2 after 1 and has returned with only 1 on the stack
C17_Witness ==
    /\ Reused([first |-> [words |-> <<"1">>, pushes |-> <<Num(1)>>, compiled |-> <<Num(1)>>],
               second |-> [words |-> <<"2">>, pushes |-> <<Num(2)>>,
                           compiled |-> <<Num(2)>>]])
    /\ ctxs[1].halted /\ ctxs[1].parameterStack = <<Num(1)>>
    /\ heap[dict[ctxs[1].base].compiled] = <<Num(1), Num(2)>>

(***************************************************************************)
(* Name resolution                                                         *)
(***************************************************************************)
\* scripts that define w up to three times, with words compiled between the
\* definitions, and the stack each leaves; the last pair runs in two contexts
FamilyC18 ==
    { [scripts |-> <<Source(<<":", "w", "1", ";", ":", "a", "w", ";", ":", "w", "2", ";",
                              "a", "w">>)>>,
       stack |-> <<Num(1), Num(2)>>],
      [scripts |-> <<Source(<<":", "w", "1", ";", "w", ":", "w", "2", ";", "w">>)>>,
       stack |-> <<Num(1), Num(2)>>],
      [scripts |-> <<Source(<<":", "w", "1", ";", ":", "w", "2", ";", ":", "w", "3", ";", "w">>)>>,
       stack |-> <<Num(3)>>],
      [scripts |-> <<Source(<<":", "w", "1", ";", ":", "a", "w", ";", ":", "w", "2", ";",
                              ":", "b", "w", ";", ":", "w", "3", ";", "a", "b", "w">>)>>,
       stack |-> <<Num(1), Num(2), Num(3)>>],
      [scripts |-> <<Source(<<":", "a", "dup", ";", ":", "dup", "7", ";", "1", "a", "dup">>)>>,
       stack |-> <<Num(1), Num(1), Num(7)>>],
      [scripts |-> <<Source(<<":", "w", "1", ";", ":", "a", "w", ";">>),
                     Source(<<":", "w", "2", ";", "a", "w", "4">>)>>,
       stack |-> <<Num(1), Num(2), Num(4)>>] }
NamesC18 == {"w", "a", "b", "dup", "x"}

Next_C18 == Load({f.scripts : f \in FamilyC18}) \/ Run \/ Execute \/ Interpret \/ Return
Spec_C18 == Init /\ [][Next_C18]_vars

\* the entry defined last under `name`, 0 if there is none
MostRecent(name) ==
    LET named == {e \in 1..Len(dict) : dict[e].name = Spell(name)} IN
    IF named = {} THEN 0 ELSE CHOOSE e \in named : \A d \in named : d <= e

\* C18: in every state find gives, for a name, the entry defined last under
\* that name; the name, link and implementation of an entry never change, so
\* a cell compiled for a word keeps calling the definition found when it was
\* compiled; and each script leaves the values of the definitions that were
\* the most recent when each of its tokens was compiled
C18_FindsMostRecent ==
    /\ [](\A name \in NamesC18 : Lookup(World, latest, Spell(name)) = MostRecent(name))
    /\ [][\A e \in 1..Len(dict) :
            /\ e <= Len(dict')
            /\ dict'[e].name = dict[e].name
            /\ dict'[e].previous = dict[e].previous
            /\ dict'[e].impl = dict[e].impl
            /\ dict'[e].compiled = dict[e].compiled]_vars
    /\ [](\A f \in FamilyC18 : \A c \in Contexts :
            (phase = "ready" /\ ctxs[c].inputStream = Last(f.scripts) /\ Finished(c))
                => /\ ctxs[c].error = ""
                   /\ ctxs[c].parameterStack = f.stack)

\* w has been defined three times, a and b were compiled in between, and
\* `a b w` has left 1, 2 and 3
C18_Witness ==
    \E c \in Contexts :
        /\ phase = "ready" /\ Finished(c) /\ ctxs[c].error = ""
        /\ Cardinality({e \in 1..Len(dict) : dict[e].name = Spell("w")}) = 3
        /\ EntryOf("b") # 0
        /\ ctxs[c].parameterStack = <<Num(1), Num(2), Num(3)>>

(***************************************************************************)
(* Variables                                                               *)
(***************************************************************************)
\* a store of 1 or 2 to v, a store of 3 or 4 to u, a fetch of v or of u
MaxOps == 3
VarOps == {<<"1", "v", "!">>, <<"2", "v", "!">>, <<"3", "u", "!">>, <<"4", "u", "!">>,
           <<"v", "@">>, <<"u", "@">>}
OpSeqs == UNION {[1..n -> VarOps] : n \in 1..MaxOps}

RECURSIVE Fetches(_, _, _)
\* what the fetches of `ops` push when v and u hold `inV` and `inU` before
Fetches(ops, inV, inU) ==
    IF ops = <<>> THEN <<>>
    ELSE LET op == Head(ops) IN
         CASE op = <<"v", "@">> -> <<inV>> \o Fetches(Tail(ops), inV, inU)
           [] op = <<"u", "@">> -> <<inU>> \o Fetches(Tail(ops), inV, inU)
           [] op[2] = "v" /\ Len(op) = 3 ->
                Fetches(Tail(ops), wordAsPrimitive(Spell(op[1])).value, inU)
           [] OTHER -> Fetches(Tail(ops), inV, wordAsPrimitive(Spell(op[1])).value)

\* `var: v var: u` and then the stores and fetches, at top level or in the
\* definition w; two scripts where the stores and the fetches are in
\* different definitions; and a pair of contexts: the second fetches what the
\* first stored
FamilyC19 ==
    {[scripts |-> <<Source(<<"var:", "v", "var:", "u">> \o Flatten(ops))>>,
      stack |-> Fetches(ops, Undef, Undef)] : ops \in OpSeqs}
    \cup {[scripts |-> <<Source(<<"var:", "v", "var:", "u", ":", "w">> \o Flatten(ops)
                                \o <<";", "w", "w">>)>>,
           stack |-> Fetches(ops \o ops, Undef, Undef)] : ops \in [1..2 -> VarOps]}
    \cup {[scripts |-> <<Source(<<"var:", "v", ":", "a", "v", "!", ";", ":", "b", "v", "@",
                                  ";", "5", "a", "b", "6", "a", "b", "b">>)>>,
           stack |-> <<Num(5), Num(6), Num(6)>>],
          [scripts |-> <<Source(<<"var:", "v", "var:", "u", "7", "v", "!">>),
                         Source(<<"v", "@", "8", "u", "!", "v", "@", "u", "@", "9",
                                  "v", "!", "v", "@">>)>>,
           stack |-> <<Num(7), Num(7), Num(8), Num(9)>>]}

Next_C19 == Load({f.scripts : f \in FamilyC19}) \/ Run \/ Execute \/ Interpret \/ Return
Spec_C19 == Init /\ [][Next_C19]_vars

\* the entries var: defined, and the value a fetch of the variable would push
VarEntries == {e \in 1..Len(dict) : dict[e].impl = <<"varimpl", e>>}
Held(e) == At(heap[dict[e].compiled], 0)

\* context c has run the cell `cell` in this step without an exception
RanCell(c, cell) ==
    /\ c <= Len(ctxs) /\ c <= Len(ctxs')
    /\ Len(ctxs'[c].trace) > Len(ctxs[c].trace)
    /\ LastCell(c)' = cell
    /\ ctxs'[c].error = ""

\* the step is a store to variable e by context c
StoresTo(c, e) ==
    /\ RanCell(c, Prim("!"))
    /\ Len(ctxs[c].parameterStack) >= 2
    /\ Last(ctxs[c].parameterStack) = Variable(e)

\* C19: a store `x v !` makes v hold x; a step that is not a store to v
\* leaves the value v holds alone (so a store to another variable does);
\* a fetch `v @` pushes the value v holds; hence each script of stores and
\* fetches leaves, for each fetch, the value of the latest store before it to
\* the same variable
C19_FetchGivesLastStore ==
    /\ [][\A e \in VarEntries :
            /\ e \in VarEntries'
            /\ \A c \in 1..Len(ctxs) :
                  StoresTo(c, e)
                    => Held(e)' = ctxs[c].parameterStack[Len(ctxs[c].parameterStack) - 1]
            /\ (\A c \in 1..Len(ctxs) : ~StoresTo(c, e)) => Held(e)' = Held(e)
            /\ \A c \in 1..Len(ctxs) :
                  (/\ RanCell(c, Prim("@"))
                   /\ ctxs[c].parameterStack # <<>>
                   /\ Last(ctxs[c].parameterStack) = Variable(e))
                    => ctxs'[c].parameterStack = Front(ctxs[c].parameterStack) \o <<Held(e)>>]_vars
    /\ [](\A f \in FamilyC19 : \A c \in Contexts :
            (phase = "ready" /\ ctxs[c].inputStream = Last(f.scripts) /\ Finished(c))
                => /\ ctxs[c].error = ""
                   /\ ctxs[c].parameterStack = f.stack)

\* `1 v ! 3 u ! v @` has run: u was stored to after v, and the fetch of v
\* has pushed 1
C19_Witness ==
    \E c \in Contexts :
        /\ ctxs[c].inputStream = Source(<<"var:", "v", "var:", "u", "1", "v", "!", "3", "u", "!",
                                          "v", "@">>)
        /\ ctxs[c].halted /\ ctxs[c].error = ""
        /\ ctxs[c].parameterStack = <<Num(1)>>
        /\ \E e, d \in VarEntries : e # d /\ Held(e) = Num(1) /\ Held(d) = Num(3)

(***************************************************************************)
(* Constants                                                               *)
(***************************************************************************)
CapturedValues == {1, 2, 3}

\* scripts that run the capture helper of k once, and scripts that run it
\* again (the definition holding it is called twice, or it is in a loop at
\* top level); `claimed` is the stack left if k keeps the first value
\* captured, `actual` the stack the program leaves
FamilyC20 ==
    {[scripts |-> <<Source(<<NumberWord(x), "const:", "k", "k", "k">>)>>,
      claimed |-> <<Num(x), Num(x)>>, actual |-> <<Num(x), Num(x)>>] : x \in CapturedValues}
    \cup {[scripts |-> <<Source(<<":", "w", NumberWord(x), "const:", "k", "k", ";", "w", "k">>)>>,
           claimed |-> <<Num(x), Num(x)>>, actual |-> <<Num(x), Num(x)>>] : x \in CapturedValues}
    \cup {[scripts |-> <<Source(<<NumberWord(x), "const:", "a", NumberWord(y), "const:", "b",
                                  "a", "b", "a">>)>>,
           claimed |-> <<Num(x), Num(y), Num(x)>>, actual |-> <<Num(x), Num(y), Num(x)>>] :
              x \in CapturedValues, y \in CapturedValues}
    \cup {[scripts |-> <<Source(<<":", "w", "const:", "k", "k", ";", NumberWord(x), "w",
                                  NumberWord(y), "w", "k">>)>>,
           claimed |-> <<Num(x), Num(x), Num(x)>>, actual |-> <<Num(x), Num(y), Num(y)>>] :
              x \in CapturedValues, y \in CapturedValues}
    \cup {[scripts |-> <<Source(<<":", "w", "const:", "k", ";", NumberWord(x), "w", "k",
                                  NumberWord(y), "w", "k">>)>>,
           claimed |-> <<Num(x), Num(x)>>, actual |-> <<Num(x), Num(y)>>] :
              x \in CapturedValues, y \in CapturedValues}
    \cup {[scripts |-> <<Source(<<"1", "begin", "dup", "const:", "k", "1", "+", "dup", "3", ">",
                                  "until", "k">>)>>,
           claimed |-> <<Num(4), Num(1)>>, actual |-> <<Num(4), Num(3)>>],
          [scripts |-> <<Source(<<":", "w", "const:", "k", "k", ";", "1", "w">>),
                         Source(<<"2", "w", "k", "0">>)>>,
           claimed |-> <<Num(1), Num(1), Num(0)>>, actual |-> <<Num(2), Num(2), Num(0)>>]}

Next_C20 == Load({f.scripts : f \in FamilyC20}) \/ Run \/ Execute \/ Interpret \/ Return
Spec_C20 == Init /\ [][Next_C20]_vars

\* the entries const: defined, the closure variable of each, the value the
\* entry pushes, and the capture helper compiled for it
ConstEntries == {e \in 1..Len(dict) : dict[e].impl[1] = "constget"}
ValueOf(e) == heap[dict[e].impl[2]][1]
HelperOf(e) == <<"constset", dict[e].impl[2]>>

\* the capture helper of e has run (in any context)
Captured(e) ==
    \E c \in Contexts : \E k \in 1..Len(ctxs[c].trace) :
        /\ At(heap[dict[ctxs[c].trace[k][1]].compiled], ctxs[c].trace[k][2]) = HelperOf(e)
        /\ (k = Len(ctxs[c].trace) => ctxs[c].error = "")

\* the step runs the capture helper of e in context c
Captures(c, e) ==
    /\ RanCell(c, HelperOf(e))
    /\ ctxs[c].parameterStack # <<>>

\* const: has defined NAME, and one cell of one compiled array is its helper
HelperCompiled(e) ==
    Cardinality({<<d, i>> \in (1..Len(dict)) \X (0..8) :
                    At(heap[dict[d].compiled], i) = HelperOf(e)}) = 1

\* C20 as stated: const: defines NAME and compiles its capture helper; once
\* the helper has run and popped x the value NAME pushes never changes, so
\* every script leaves what it leaves when NAME keeps the first value captured
C20_KeepsFirstCapture ==
    /\ [](\A e \in ConstEntries : HelperCompiled(e))
    /\ [][\A e \in ConstEntries : Captured(e) => ValueOf(e)' = ValueOf(e)]_vars
    /\ [](\A f \in FamilyC20 : \A c \in Contexts :
            (phase = "ready" /\ ctxs[c].inputStream = Last(f.scripts) /\ Finished(c))
                => /\ ctxs[c].error = ""
                   /\ ctxs[c].parameterStack = f.claimed)

\* what the program does: const: defines NAME and compiles its capture
\* helper; NAME pushes the value popped by the latest run of the helper, which
\* captures again each time it runs; nothing else changes the value
KeepsLatestCapture ==
    /\ [](\A e \in ConstEntries : HelperCompiled(e))
    /\ [][\A e \in ConstEntries :
            /\ e \in ConstEntries' /\ HelperOf(e)' = HelperOf(e)
            /\ \A c \in 1..Len(ctxs) :
                  Captures(c, e) => /\ ValueOf(e)' = Last(ctxs[c].parameterStack)
                                    /\ ctxs'[c].parameterStack = Front(ctxs[c].parameterStack)
            /\ (\A c \in 1..Len(ctxs) : ~Captures(c, e)) => ValueOf(e)' = ValueOf(e)
            /\ \A c \in 1..Len(ctxs) :
                  RanCell(c, dict[e].impl)
                    => ctxs'[c].parameterStack = ctxs[c].parameterStack \o <<ValueOf(e)>>]_vars
    /\ [](\A f \in FamilyC20 : \A c \in Contexts :
            (phase = "ready" /\ ctxs[c].inputStream = Last(f.scripts) /\ Finished(c))
                => /\ ctxs[c].error = ""
                   /\ ctxs[c].parameterStack = f.actual)

\* `: w const: k k ; 1 w 2 w k` has run: the second call of w captured 2, and
\* k pushes 2 afterwards
C20_Witness ==
    \E c \in Contexts : \E e \in ConstEntries :
        /\ ctxs[c].inputStream = Source(<<":", "w", "const:", "k", "k", ";", "1", "w", "2", "w", "k">>)
        /\ ctxs[c].halted /\ ctxs[c].error = ""
        /\ ctxs[c].parameterStack = <<Num(1), Num(2), Num(2)>>
        /\ Captured(e) /\ ValueOf(e) = Num(2)

(***************************************************************************)
(* quit                                                                    *)
(***************************************************************************)
\* scripts that run quit at top level, in a definition, in nested calls and
\* in a conditional, one that compiles quit and never runs it, and one where
\* an immediate word runs quit while w is being compiled; `stack` is what
\* each leaves
FamilyC21 ==
    { [scripts |-> <<Source(<<":", "inner", "4", "quit", ";", ":", "outer", "inner", "3", ";",
                              "outer", "false">>)>>,
       stack |-> <<Num(4)>>],
      [scripts |-> <<Source(<<"1", "quit", "2">>)>>, stack |-> <<Num(1)>>],
      [scripts |-> <<Source(<<":", "w", "1", "quit", "2", ";", "w", "3">>)>>,
       stack |-> <<Num(1)>>],
      [scripts |-> <<Source(<<":", "a", "1", "quit", "2", ";", ":", "b", "a", "3", ";",
                              ":", "w", "b", "4", ";", "5", "w", "6">>)>>,
       stack |-> <<Num(5), Num(1)>>],
      [scripts |-> <<Source(<<":", "w", "true", "if", "1", "quit", "endif", "2", ";",
                              "w", "3">>)>>,
       stack |-> <<Num(1)>>],
      [scripts |-> <<Source(<<":", "w", "false", "if", "1", "quit", "endif", "2", ";",
                              "w", "3">>)>>,
       stack |-> <<Num(2), Num(3)>>],
      [scripts |-> <<Source(<<":", "a", "immediate", "quit", "6", ";", ":", "w", "a", "5", ";",
                              "w", "7">>)>>,
       stack |-> <<Num(6), Num(5), Num(7)>>] }

Next_C21 == Load({f.scripts : f \in FamilyC21}) \/ Run \/ Execute \/ Interpret \/ Return
Spec_C21 == Init /\ [][Next_C21]_vars

\* context c runs the cell quit in this step
RunsQuit(c) == RanCell(c, Prim("quit"))
AtEndOfInput(c) == ctxs[c].inputStreamPointer >= Len(ctxs[c].inputStream)

\* quit has run in context c with the cursor at the end of the input
QuitAtEnd(c) ==
    /\ ctxs[c].trace # <<>>
    /\ LastCell(c) = Prim("quit")
    /\ AtEndOfInput(c)

\* C21: a step that runs quit keeps the bottom frame of the return stack
\* and drops the frames above it, and then interprets: with input left it
\* reads the next token, and with the cursor at the end of the input (the
\* top level is executing) it halts the context; from then on the context
\* runs no cell, whatever the frames still hold, so each script leaves only
\* what it pushed before quit
C21_QuitKeepsBottomFrameAndHalts ==
    /\ [][\A c \in 1..Len(ctxs) :
            RunsQuit(c)
              => /\ ctxs[c].returnStack # <<>> /\ ctxs'[c].returnStack # <<>>
                 /\ ctxs'[c].returnStack[1].dictionaryEntry
                        = ctxs[c].returnStack[1].dictionaryEntry
                 /\ ctxs'[c].returnStack[1].i
                        = ctxs[c].returnStack[1].i
                            + (IF Len(ctxs[c].returnStack) = 1 THEN 1 ELSE 0)
                 /\ AtEndOfInput(c)
                      => /\ Len(ctxs'[c].returnStack) = 1
                         /\ ctxs'[c].halted
                         /\ ctxs'[c].parameterStack = ctxs[c].parameterStack
                 /\ ~AtEndOfInput(c)
                      => /\ ~ctxs'[c].halted
                         /\ ctxs'[c].inputStreamPointer > ctxs[c].inputStreamPointer]_vars
    /\ [][\A c \in 1..Len(ctxs) :
            (QuitAtEnd(c) /\ c <= Len(ctxs'))
              => /\ ctxs'[c].trace = ctxs[c].trace
                 /\ ctxs'[c].returnStack = ctxs[c].returnStack
                 /\ ctxs'[c].parameterStack = ctxs[c].parameterStack
                 /\ ctxs'[c].halted]_vars
    /\ [](\A f \in FamilyC21 : \A c \in Contexts :
            (phase = "ready" /\ ctxs[c].inputStream = Last(f.scripts) /\ Finished(c))
                => /\ ctxs[c].error = ""
                   /\ ctxs[c].parameterStack = f.stack)

\* quit has run three calls deep: the call of query has returned, the context
\* is halted with one frame left, the base entry, which still has cells to run
C21_Witness ==
    \E c \in Contexts :
        /\ ctxs[c].inputStream = Source(<<":", "a", "1", "quit", "2", ";", ":", "b", "a", "3", ";",
                                          ":", "w", "b", "4", ";", "5", "w", "6">>)
        /\ callStack = <<>> /\ QuitAtEnd(c) /\ ctxs[c].halted
        /\ ctxs[c].parameterStack = <<Num(5), Num(1)>>
        /\ Len(ctxs[c].returnStack) = 1
        /\ ctxs[c].returnStack[1].dictionaryEntry = ctxs[c].base
        /\ ctxs[c].returnStack[1].i < Len(heap[dict[ctxs[c].base].compiled])

(***************************************************************************)
(* Closers without an opener                                               *)
(***************************************************************************)
\* scripts with a `;` or a `]` met while only the base entry is on the
\* compilation stack, and what each ends with: `error` is the message of the
\* exception that left query ("" for none), `stack` the parameter stack
FamilyC22 ==
    { [scripts |-> <<Source(<<";">>)>>, error |-> CompilationStackUnderflow, stack |-> <<>>],
      [scripts |-> <<Source(<<"]">>)>>, error |-> CompilationStackUnderflow, stack |-> <<>>],
      [scripts |-> <<Source(<<"1", ";">>)>>, error |-> CompilationStackUnderflow,
       stack |-> <<>>],
      [scripts |-> <<Source(<<";", "1">>)>>, error |-> CompilationStackUnderflow,
       stack |-> <<>>],
      [scripts |-> <<Source(<<"1", "]", "2">>)>>, error |-> CompilationStackUnderflow,
       stack |-> <<>>],
      [scripts |-> <<Source(<<":", "w", "1", ";", ";">>)>>, error |-> CompilationStackUnderflow,
       stack |-> <<>>],
      [scripts |-> <<Source(<<":", "w", "1", ";", ";", "w">>)>>,
       error |-> CompilationStackUnderflow, stack |-> <<>>],
      [scripts |-> <<Source(<<"[", "1", "]", "]">>)>>, error |-> CompilationStackUnderflow,
       stack |-> <<>>],
      [scripts |-> <<Source(<<";", ":", "w", "1", ";">>)>>, error |-> CompilationStackUnderflow,
       stack |-> <<>>],
      [scripts |-> <<Source(<<";", ":", "w", "1">>)>>, error |-> "", stack |-> <<Num(1)>>],
      [scripts |-> <<Source(<<";", "[", "1", "2">>)>>, error |-> "",
       stack |-> <<Num(1), Num(2)>>],
      [scripts |-> <<Source(<<"1", ";", ":", "w", "2", ";", ":", "a", "3">>)>>, error |-> "",
       stack |-> <<Num(3)>>],
      [scripts |-> <<Source(<<":", "w", "1", ";", "[", "2", "]", "drop", "w">>)>>, error |-> "",
       stack |-> <<Num(1)>>] }

Next_C22 == Load({f.scripts : f \in FamilyC22}) \/ Run \/ Execute \/ Interpret \/ Return
Spec_C22 == Init /\ [][Next_C22]_vars

\* a `;` or `]` has popped the base entry of context c off the compilation
\* stack: it was met with no definition and no array open
BaseRemoved(c) ==
    \A k \in 1..Len(ctxs[c].compilationStack) : ctxs[c].compilationStack[k] # ctxs[c].base

\* C22 as stated: a program that meets `;` or `]` while only the base entry
\* is on the compilation stack ends with the error Compilation stack underflow
C22_UnmatchedCloserFails ==
    \A c \in Contexts :
        (phase = "ready" /\ Finished(c) /\ BaseRemoved(c))
            => ctxs[c].error = CompilationStackUnderflow

\* what the program does: the closer pops the base entry without an error;
\* the error is raised by the next compile or by EXECUTE at the end of the
\* input, and not at all when the input ends inside a definition or an array
\* opened after the closer, whose cells are then executed as the top level
UnmatchedCloserOutcomes ==
    \A f \in FamilyC22 : \A c \in Contexts :
        (phase = "ready" /\ ctxs[c].inputStream = Last(f.scripts) /\ Finished(c))
            => /\ ctxs[c].error = f.error
               /\ ctxs[c].parameterStack = f.stack
               /\ BaseRemoved(c) = (ctxs[c].inputStream # Source(<<":", "w", "1", ";", "[", "2",
                                                                   "]", "drop", "w">>))

\* `; : w 1` has ended without an error: the base entry is gone, the cells
\* of w ran as the top level and left 1
C22_Witness ==
    \E c \in Contexts :
        /\ ctxs[c].inputStream = Source(<<";", ":", "w", "1">>)
        /\ ctxs[c].halted /\ ctxs[c].error = "" /\ BaseRemoved(c)
        /\ ctxs[c].parameterStack = <<Num(1)>>

(***************************************************************************)
(* Faults of the branch primitives                                         *)
(***************************************************************************)
BranchWords == {"branch", "0branch", "falsyBranch"}
\* what is on the stack when the primitive runs (nothing, or one value), and
\* the cells compiled after the primitive (none: it is the last cell)
BranchConditions == {<<>>, <<"1">>, <<"0">>, <<"true">>, <<"undefined">>}
BranchTails == {<<>>, <<"true", "7">>, <<"undefined", "7">>, <<"dup", "7">>, <<"1", "7">>}
IsNumberWord(t) == wordAsPrimitive(Spell(t)).isPrimitive
                      /\ IsFiniteNumber(wordAsPrimitive(Spell(t)).value)

\* `: w br tail ; cond w`, or `cond br tail` at top level
FamilyC23 ==
    {[script |-> Source(IF inDef THEN <<":", "w", br>> \o tail \o <<";">> \o cond \o <<"w">>
                        ELSE cond \o <<br>> \o tail),
      br |-> br, cond |-> cond, tail |-> tail] :
        br \in BranchWords, cond \in BranchConditions, tail \in BranchTails, inDef \in BOOLEAN}

Next_C23 == Load({<<f.script>> : f \in FamilyC23}) \/ Run \/ Execute \/ Interpret \/ Return
Spec_C23 == Init /\ [][Next_C23]_vars

\* the message each primitive gives for an offset cell that is not a number
BadBranchOf(br) ==
    CASE br = "branch" -> BadBranch
      [] br = "0branch" -> BadZeroBranch
      [] br = "falsyBranch" -> BadFalsyBranch

CellFault(f) == f.tail = <<>> \/ ~IsNumberWord(f.tail[1])
ConditionFault(f) == f.br = "0branch" /\ f.cond # <<>> /\ ~IsNumberWord(f.cond[1])
EmptyStackFault(f) == f.br # "branch" /\ f.cond = <<>>

\* a script of the family has ended in context c
EndedC23(f, c) == phase = "ready" /\ ctxs[c].inputStream = f.script /\ Finished(c)

\* C23 as stated: a branch primitive whose offset cell is not a number fails
\* with BadBranch, 0branch fails with BadStackForZeroBranch when the value it
\* pops is not a number, and the latter wins when both hold
C23_BranchFaultsAsStated ==
    \A f \in FamilyC23 : \A c \in Contexts :
        EndedC23(f, c)
            => /\ ConditionFault(f) => ctxs[c].error = BadStackForZeroBranch
               /\ (CellFault(f) /\ ~ConditionFault(f))
                    => ctxs[c].error \in {BadBranchOf(f.br), BadStackForZeroBranch}

\* C23, amended: 0branch and falsyBranch pop before they look at anything, so
\* on an empty stack they fail with Stack underflow; otherwise 0branch fails
\* with BadStackForZeroBranch on a condition that is not a number; otherwise
\* each primitive fails with BadBranch when the cell at the index of the
\* executing frame is not a number (a boolean, undefined, a word, or no cell
\* at all at the end of the entry); otherwise it does not fail.  The error is
\* raised by the step that runs the primitive
C23_BranchFaults ==
    \A f \in FamilyC23 : \A c \in Contexts :
        EndedC23(f, c)
            => /\ ctxs[c].error =
                    (IF EmptyStackFault(f) THEN StackUnderflow
                     ELSE IF ConditionFault(f) THEN BadStackForZeroBranch
                     ELSE IF CellFault(f) THEN BadBranchOf(f.br)
                     ELSE "")
               /\ ctxs[c].error # "" => LastCell(c) = Prim(f.br)
               /\ ctxs[c].error = ""
                    => ctxs[c].parameterStack =
                         (IF f.br = "branch"
                          THEN [k \in 1..Len(f.cond) |-> wordAsPrimitive(Spell(f.cond[k])).value]
                          ELSE <<>>) \o <<Num(7)>>

\* `: w 0branch undefined 7 ; true w` has failed on the condition although
\* the offset cell is no number either
C23_Witness ==
    \E c \in Contexts :
        /\ ctxs[c].inputStream = Source(<<":", "w", "0branch", "undefined", "7", ";", "true", "w">>)
        /\ ctxs[c].error = BadStackForZeroBranch
        /\ LastCell(c) = Prim("0branch")

(***************************************************************************)
(* -stackFrame                                                             *)
(***************************************************************************)
MaxCells == 3
\* `m` is an immediate `here`, `y` a word that does nothing; k cells `y` are
\* compiled between two locations taken in the same target
Between(k) == <<"m">> \o [j \in 1..k |-> "y"] \o <<"m">>
PreludeC24 == <<":", "m", "immediate", "here", ";", ":", "y", ";">>
\* words that leave, beside a location, a value that is no location
NotLocations == {<<"5">>, <<"undefined">>, <<"true">>, <<"v">>, <<"[", "]">>}

\* `result` is the number the script leaves, `error` the message it fails with
FamilyC24 ==
    {[script |-> Source(PreludeC24 \o
                        (IF inDef THEN <<":", "w">> \o Between(k) \o <<"-stackFrame", ";", "w">>
                         ELSE Between(k) \o <<"-stackFrame">>)),
      error |-> "", result |-> 0 - k] : k \in 0..MaxCells, inDef \in BOOLEAN}
    \cup {[script |-> Source(PreludeC24 \o Between(k) \o <<"swap", "-stackFrame">>),
           error |-> "", result |-> k] : k \in 0..MaxCells}
    \cup {[script |-> Source(PreludeC24 \o <<"var:", "v", "m">> \o x \o s \o <<"-stackFrame">>),
           error |-> BadStackFrame, result |-> 0] : x \in NotLocations, s \in {<<>>, <<"swap">>}}
    \cup {[script |-> Source(PreludeC24 \o <<"var:", "v">> \o x \o y \o <<"-stackFrame">>),
           error |-> BadStackFrame, result |-> 0] : x \in NotLocations, y \in {<<"5">>, <<"v">>}}
    \cup {[script |-> Source(PreludeC24 \o <<":", "a", "m", ";", "a", ":", "b", "m", ";", "b",
                                            "-stackFrame">>),
           error |-> BadStackFrameEntries, result |-> 0],
          [script |-> Source(PreludeC24 \o <<"m", ":", "w", "m", ";", "-stackFrame">>),
           error |-> BadStackFrameEntries, result |-> 0],
          [script |-> Source(PreludeC24 \o <<"m", "[", "m", "]", "drop", "-stackFrame">>),
           error |-> BadStackFrameEntries, result |-> 0]}

Next_C24 == Load({<<f.script>> : f \in FamilyC24}) \/ Run \/ Execute \/ Interpret \/ Return
Spec_C24 == Init /\ [][Next_C24]_vars

\* context c runs the cell `cell` in this step, with or without an exception
TriedCell(c, cell) ==
    /\ c <= Len(ctxs) /\ c <= Len(ctxs')
    /\ Len(ctxs'[c].trace) > Len(ctxs[c].trace)
    /\ LastCell(c)' = cell

IsLocation(v) == v[1] = "loc"

\* C24: a step that runs -stackFrame on a stack of at least two values pops b
\* from the top and a from beneath it; when both are locations of compiled
\* cells of one entry it pushes a.i - b.i, and otherwise it fails with
\* BadStackFrame (one of its two messages); two locations taken by `here` in
\* one target with k cells compiled between them give -k, and +k when swapped
C24_StackFrameDifference ==
    /\ [][\A c \in 1..Len(ctxs) :
            (TriedCell(c, Prim("-stackFrame")) /\ Len(ctxs[c].parameterStack) >= 2)
              => LET n == Len(ctxs[c].parameterStack)
                     b == ctxs[c].parameterStack[n]
                     a == ctxs[c].parameterStack[n - 1]
                 IN  IF IsLocation(a) /\ IsLocation(b) /\ a[2] = b[2]
                     THEN /\ ctxs'[c].error = ""
                          /\ ctxs'[c].parameterStack
                                = SubSeq(ctxs[c].parameterStack, 1, n - 2) \o <<Num(a[3] - b[3])>>
                     ELSE /\ ctxs'[c].error
                                = (IF IsLocation(a) /\ IsLocation(b) THEN BadStackFrameEntries
                                   ELSE BadStackFrame)
                          /\ ctxs'[c].parameterStack = SubSeq(ctxs[c].parameterStack, 1, n - 2)]_vars
    /\ [](\A f \in FamilyC24 : \A c \in Contexts :
            (phase = "ready" /\ ctxs[c].inputStream = f.script /\ Finished(c))
                => /\ ctxs[c].error = f.error
                   /\ f.error = "" => ctxs[c].parameterStack = <<Num(f.result)>>)

\* two locations of the definition w with three cells between them have been
\* subtracted, leaving -3
C24_Witness ==
    \E c \in Contexts :
        /\ ctxs[c].inputStream
              = Source(PreludeC24 \o <<":", "w">> \o Between(3) \o <<"-stackFrame", ";", "w">>)
        /\ ctxs[c].halted /\ ctxs[c].error = ""
        /\ ctxs[c].parameterStack = <<Num(0 - 3)>>
        /\ LastCell(c) = Prim("-stackFrame")

(***************************************************************************)
(* Literals                                                                *)
(***************************************************************************)
MaxTokens == 3
\* literal tokens as they are written, and the value of each
LiteralTokens ==
    { [text |-> <<"-", "1">>, value |-> Num(0 - 1)],
      [text |-> <<"0">>, value |-> Num(0)],
      [text |-> <<"1", "2">>, value |-> Num(12)],
      [text |-> <<"0", "0", "7">>, value |-> Num(7)],
      [text |-> <<"t", "r", "u", "e">>, value |-> Bool(TRUE)],
      [text |-> <<"f", "a", "l", "s", "e">>, value |-> Bool(FALSE)],
      [text |-> <<"u", "n", "d", "e", "f", "i", "n", "e", "d">>, value |-> Undef] }
TokenSeqs == UNION {[1..n -> LiteralTokens] : n \in 0..MaxTokens}

\* the tokens with `before` in front of each and `after` at the end
Spaced(tokens, before, after) ==
    Flatten([k \in 1..Len(tokens) |-> before \o tokens[k].text]) \o after

\* inputs of one space between tokens, and short inputs with newlines and
\* tabs around the tokens
FamilyC25 ==
    {[script |-> IF tokens = <<>> THEN <<>> ELSE Tail(Spaced(tokens, <<" ">>, <<>>)),
      values |-> [k \in 1..Len(tokens) |-> tokens[k].value]] : tokens \in TokenSeqs}
    \cup {[script |-> Spaced(tokens, <<"\n", " ">>, <<"\t", "\n">>),
           values |-> [k \in 1..Len(tokens) |-> tokens[k].value]] :
              tokens \in {t \in TokenSeqs : Len(t) <= 2}}

Next_C25 == Load({<<f.script>> : f \in FamilyC25}) \/ Run \/ Execute \/ Interpret \/ Return
Spec_C25 == Init /\ [][Next_C25]_vars

\* C25: an input of literal tokens only ends halted without an error, and
\* its final parameter stack is the values of the tokens in source order;
\* until the end of the input is reached nothing is pushed, the values are
\* compiled, in order, into the base entry
C25_LiteralsInSourceOrder ==
    \A f \in FamilyC25 : \A c \in Contexts :
        (phase = "ready" /\ ctxs[c].inputStream = f.script)
            => /\ ctxs[c].error = ""
               /\ ctxs[c].halted => ctxs[c].parameterStack = f.values
               /\ ~ctxs[c].didExecuteAndEnd
                    => /\ ctxs[c].parameterStack = <<>>
                       /\ \E n \in 0..Len(f.values) :
                             heap[dict[ctxs[c].base].compiled] = SubSeq(f.values, 1, n)

\* `-1 undefined 007` has left -1, undefined and 7
C25_Witness ==
    \E c \in Contexts :
        /\ ctxs[c].inputStream
              = <<"-", "1", " ", "u", "n", "d", "e", "f", "i", "n", "e", "d", " ", "0", "0", "7">>
        /\ ctxs[c].halted /\ ctxs[c].error = ""
        /\ ctxs[c].parameterStack = <<Num(0 - 1), Undef, Num(7)>>

(***************************************************************************)
(* The guard of each in another context                                    *)
(***************************************************************************)
\* what the definition w puts on the stack of the context that runs it
\* before its loop, and what the script that compiles w leaves on top of its
\* own stack (<<>>: the function made by wordToFunc:)
LoopArguments == {<<"[", "3", "5", "]">>, <<"4">>, <<"undefined">>}
OwnerTops == {<<>>, <<"[", "7", "]">>, <<"4">>}

\* `: w arg each I log endeach ; top wordToFunc: w`, whose function the host
\* calls, and `: w each I log endeach ; arg w`, run by the context itself
FamilyC26 ==
    {Source(<<":", "w">> \o arg \o <<"each", "I", "log", "endeach", ";">> \o top
            \o <<"wordToFunc:", "w">>) : arg \in LoopArguments, top \in OwnerTops}
    \cup {Source(<<":", "w", "each", "I", "log", "endeach", ";">> \o arg \o <<"w">>) :
             arg \in LoopArguments}

Next_C26 ==
    Load({<<s>> : s \in FamilyC26}) \/ Run \/ Execute \/ Interpret \/ Return \/ Invoke
Spec_C26 == Init /\ [][Next_C26]_vars

\* context c runs a guard compiled by each in this step
TriedGuard(c) ==
    /\ c <= Len(ctxs) /\ c <= Len(ctxs')
    /\ Len(ctxs'[c].trace) > Len(ctxs[c].trace)
    /\ LastCell(c)'[1] = "eachguard"

HasArrayOnTop(c) ==
    ctxs[c].parameterStack # <<>> /\ Last(ctxs[c].parameterStack)[1] = "arr"

\* C26 as stated: the guard fails with EachNeedsArray exactly when the top of
\* the parameter stack of the context that executes it is not an array
C26_GuardInspectsExecutingContext ==
    [][\A c \in 1..Len(ctxs) :
          TriedGuard(c) => ((ctxs'[c].error = EachNeedsArray) <=> ~HasArrayOnTop(c))]_vars

\* what the program does: the guard fails exactly when the top of the stack
\* of the context that compiled the each is not an array; the two agree when
\* a context runs a loop it compiled itself
GuardInspectsCompilingContext ==
    [][\A c \in 1..Len(ctxs) :
          TriedGuard(c)
            => /\ (ctxs'[c].error = EachNeedsArray) <=> ~HasArrayOnTop(LastCell(c)'[2])
               /\ ctxs'[c].error \in {"", EachNeedsArray}
               /\ ctxs'[c].parameterStack = ctxs[c].parameterStack]_vars

\* the function made of `: w [ 3 5 ] each I log endeach ;` has been called:
\* the new context has failed in the guard with the array on top of its stack
C26_Witness ==
    \E c \in Contexts :
        /\ ctxs[c].returned # NotCalled
        /\ ctxs[c].error = EachNeedsArray
        /\ HasArrayOnTop(c)
        /\ heap[Last(ctxs[c].parameterStack)[2]] = <<Num(3), Num(5)>>
        /\ LastCell(c)[1] = "eachguard" /\ LastCell(c)[2] # c

(***************************************************************************)
(* Calls and returns                                                       *)
(***************************************************************************)
MaxNest == 3
NestNames == <<"a", "b", "k", "m", "x">>

RECURSIVE NestDefs(_, _)
\* `: a inner ; : b a 2 a ; : k b 3 b ; ...`: n definitions, each calling the
\* one before it as its first and as its last cell
NestDefs(n, inner) ==
    IF n = 1 THEN <<":", "a">> \o inner \o <<";">>
    ELSE NestDefs(n - 1, inner)
           \o <<":", NestNames[n], NestNames[n - 1], NumberWord(n), NestNames[n - 1], ";">>

RECURSIVE NestOut(_, _)
\* what a call of the n-th definition pushes
NestOut(n, inner) ==
    IF n = 1 THEN [k \in 1..Len(inner) |-> wordAsPrimitive(Spell(inner[k])).value]
    ELSE NestOut(n - 1, inner) \o <<Num(n)>> \o NestOut(n - 1, inner)

\* the definitions, then a call of the last one between 8 and 9 at top level
FamilyC27 ==
    {[script |-> Source(NestDefs(n, inner) \o <<"8", NestNames[n], "9">>),
      n |-> n, stack |-> <<Num(8)>> \o NestOut(n, inner) \o <<Num(9)>>] :
        n \in 1..MaxNest, inner \in {<<>>, <<"1">>, <<"1", "0">>}}

Next_C27 == Load({<<f.script>> : f \in FamilyC27}) \/ Run \/ Execute \/ Interpret \/ Return
Spec_C27 == Init /\ [][Next_C27]_vars

\* the cell at index i of entry e
CellAt(e, i) == At(heap[dict[e].compiled], i)

\* context c runs a cell that is a colon definition in this step
CallsWord(c) ==
    /\ c <= Len(ctxs) /\ c <= Len(ctxs')
    /\ Len(ctxs'[c].trace) > Len(ctxs[c].trace)
    /\ LastCell(c)'[1] = "docol"

\* context c takes a step of the executor with its top frame at the end of
\* the entry
FrameEnds(c) ==
    /\ phase = "ready" /\ callStack # <<>> /\ Current = c /\ c <= Len(ctxs')
    /\ ctxs[c].returnStack # <<>> /\ ~ctxs[c].halted /\ ~ctxs[c].paused
    /\ Last(ctxs[c].returnStack).i = Len(heap[dict[Last(ctxs[c].returnStack).dictionaryEntry].compiled])
    /\ ctxs' # ctxs

\* C27: a step that runs a colon definition advances the caller past the
\* call and pushes the one frame {entry, 0}; a step that finds the top frame
\* at the end of its entry pops that frame and nothing else, runs no cell,
\* and leaves on top the frame of the caller, standing at the cell after the
\* call; no entry of these scripts holds an `exit` cell; in every state each
\* frame above the bottom one was called from the cell before the index of
\* the frame beneath it, so the depth after a call is the depth before it;
\* each script leaves what its calls push, in order, and an empty return
\* stack
C27_CallPushesOneFrameAndReturns ==
    /\ [][\A c \in 1..Len(ctxs) :
            (CallsWord(c) /\ phase = "ready")
              => LET n == Len(ctxs[c].returnStack) IN
                 /\ Len(ctxs'[c].returnStack) = n + 1
                 /\ ctxs'[c].returnStack[n + 1]
                       = [dictionaryEntry |-> LastCell(c)'[2], i |-> 0]
                 /\ \A k \in 1..(n - 1) : ctxs'[c].returnStack[k] = ctxs[c].returnStack[k]
                 /\ ctxs'[c].returnStack[n]
                       = [ctxs[c].returnStack[n] EXCEPT !.i = @ + 1]
                 /\ ctxs'[c].parameterStack = ctxs[c].parameterStack]_vars
    /\ [][\A c \in 1..Len(ctxs) :
            FrameEnds(c)
              => /\ ctxs'[c].returnStack = Front(ctxs[c].returnStack)
                 /\ ctxs'[c].trace = ctxs[c].trace
                 /\ ctxs'[c].parameterStack = ctxs[c].parameterStack
                 /\ Len(ctxs[c].returnStack) > 1
                      => LET caller == Last(ctxs'[c].returnStack) IN
                         /\ caller.i >= 1
                         /\ CellAt(caller.dictionaryEntry, caller.i - 1)
                               = <<"docol", Last(ctxs[c].returnStack).dictionaryEntry>>]_vars
    /\ [](phase = "ready"
            => /\ \A e \in 1..Len(dict) : \A i \in 0..(Len(heap[dict[e].compiled]) - 1) :
                     dict[e].impl = <<"docol", e>> /\ CellAt(e, i) = Prim("exit")
                        => e \in coreWords
               /\ \A c \in Contexts : \A k \in 2..Len(ctxs[c].returnStack) :
                     /\ ctxs[c].returnStack[k - 1].i >= 1
                     /\ CellAt(ctxs[c].returnStack[k - 1].dictionaryEntry,
                               ctxs[c].returnStack[k - 1].i - 1)
                          = <<"docol", ctxs[c].returnStack[k].dictionaryEntry>>)
    /\ [](\A f \in FamilyC27 : \A c \in Contexts :
            (phase = "ready" /\ ctxs[c].inputStream = f.script /\ Finished(c))
                => /\ ctxs[c].error = ""
                   /\ ctxs[c].parameterStack = f.stack
                   /\ ctxs[c].returnStack = <<>>)

\* three calls deep: the frames of the base entry, k, b and a are on the
\* return stack, the frame of a is at the end of a and about to be popped
C27_Witness ==
    \E c \in Contexts :
        /\ phase = "ready" /\ Len(ctxs[c].returnStack) = 4
        /\ ctxs[c].returnStack[1].dictionaryEntry = ctxs[c].base
        /\ dict[ctxs[c].returnStack[4].dictionaryEntry].name = Spell("a")
        /\ ctxs[c].returnStack[4].i = Len(heap[dict[ctxs[c].returnStack[4].dictionaryEntry].compiled])
        /\ ctxs[c].returnStack[4].i = 2
        /\ ctxs[c].returnStack[3].i = 3

(***************************************************************************)
(* Where the branch primitives go                                          *)
(***************************************************************************)
\* the offsets compiled after the primitive; 6, 7 and 8 are compiled after
\* the offset, so offset 4 lands on the end of the entry
Offsets == 0..4
ZeroBranchConditions == {<<"0">>, <<"1">>, <<"-1">>, <<"5">>}

\* what runs after the primitive: from the cell it lands on to the end
Landing(k, taken) ==
    IF taken THEN SubSeq(<<Num(k), Num(6), Num(7), Num(8)>>, k + 1, 4)
    ELSE <<Num(6), Num(7), Num(8)>>

\* `: w br k 6 7 8 ; cond w`, or `cond br k 6 7 8` at top level
BranchScript(br, cond, k, inDef) ==
    Source(IF inDef
           THEN <<":", "w", br, NumberWord(k), "6", "7", "8", ";">> \o cond \o <<"w">>
           ELSE cond \o <<br, NumberWord(k), "6", "7", "8">>)

\* `stack` is what each script leaves; the last two go back by one cell, to
\* the primitive itself, which then pops the second condition
FamilyC28 ==
    {[script |-> BranchScript("branch", cond, k, inDef),
      stack |-> [j \in 1..Len(cond) |-> Num(1)] \o Landing(k, TRUE)] :
        cond \in {<<>>, <<"1">>}, k \in Offsets, inDef \in BOOLEAN}
    \cup {[script |-> BranchScript("0branch", cond, k, inDef),
           stack |-> Landing(k, cond = <<"0">>)] :
             cond \in ZeroBranchConditions, k \in Offsets, inDef \in BOOLEAN}
    \cup {[script |-> BranchScript("falsyBranch", cond, k, inDef),
           stack |-> Landing(k, ~Truthy(cond))] :
             cond \in Conditions, k \in Offsets, inDef \in BOOLEAN}
    \cup {[script |-> BranchScript("0branch", <<"1", "0">>, 0 - 1, TRUE),
           stack |-> <<Num(6), Num(7), Num(8)>>],
          [script |-> BranchScript("falsyBranch", <<"true", "false">>, 0 - 1, TRUE),
           stack |-> <<Num(6), Num(7), Num(8)>>]}

Next_C28 == Load({<<f.script>> : f \in FamilyC28}) \/ Run \/ Execute \/ Interpret \/ Return
Spec_C28 == Init /\ [][Next_C28]_vars

\* the values that are falsy in JavaScript, among those the scripts push
FalsyValues == {Bool(FALSE), Num(0), Undef, Null, NaN, Str(<<>>)}

\* the top frame of context c before the step, the index it has once the
\* executor has stepped over the primitive, and the offset cell there
Frame(c) == Last(ctxs[c].returnStack)
OffsetIndex(c) == Frame(c).i + 1
OffsetCell(c) == CellAt(Frame(c).dictionaryEntry, OffsetIndex(c))

\* after the step the top frame of c is the same frame at index i
LandsAt(c, i) ==
    /\ ctxs'[c].error = ""
    /\ ctxs'[c].returnStack
          = [ctxs[c].returnStack EXCEPT ![Len(ctxs[c].returnStack)].i = i]

\* C28: when a branch primitive runs, the index of the executing frame is
\* that of the offset cell k; branch leaves the index at that plus k and the
\* stack as it was; 0branch pops a number and leaves the index at that plus
\* k if the number is 0 and plus 1 otherwise; falsyBranch pops a value and
\* leaves it at that plus k if the value is falsy and plus 1 otherwise; each
\* script runs the cells from the one landed on
C28_BranchesLand ==
    /\ [][\A c \in 1..Len(ctxs) :
            LET j == OffsetIndex(c)
                k == OffsetCell(c)
                n == Len(ctxs[c].parameterStack)
            IN  /\ (TriedCell(c, Prim("branch")) /\ k[1] = "num")
                      => /\ LandsAt(c, j + k[2])
                         /\ ctxs'[c].parameterStack = ctxs[c].parameterStack
                /\ (TriedCell(c, Prim("0branch")) /\ k[1] = "num" /\ n >= 1
                        /\ ctxs[c].parameterStack[n][1] = "num")
                      => /\ LandsAt(c, IF ctxs[c].parameterStack[n][2] = 0
                                       THEN j + k[2] ELSE j + 1)
                         /\ ctxs'[c].parameterStack = Front(ctxs[c].parameterStack)
                /\ (TriedCell(c, Prim("falsyBranch")) /\ k[1] = "num" /\ n >= 1)
                      => /\ LandsAt(c, IF ctxs[c].parameterStack[n] \in FalsyValues
                                       THEN j + k[2] ELSE j + 1)
                         /\ ctxs'[c].parameterStack = Front(ctxs[c].parameterStack)]_vars
    /\ [](\A f \in FamilyC28 : \A c \in Contexts :
            (phase = "ready" /\ ctxs[c].inputStream = f.script /\ Finished(c))
                => /\ ctxs[c].error = ""
                   /\ ctxs[c].parameterStack = f.stack)

\* `: w 0branch 2 6 7 8 ; 0 w` has popped the 0, skipped the 6 and left 7 8
C28_Witness ==
    \E c \in Contexts :
        /\ ctxs[c].inputStream = BranchScript("0branch", <<"0">>, 2, TRUE)
        /\ ctxs[c].halted /\ ctxs[c].error = ""
        /\ ctxs[c].parameterStack = <<Num(7), Num(8)>>

(***************************************************************************)
(* The bottom of the compilation stack                                     *)
(***************************************************************************)
\* scripts in which every `;` and `]` closes a definition or an array
MatchedC29 ==
    { <<":", "w", "1", ";", "w">>,
      <<"[", "1", "[", "2", "]", "]">>,
      <<":", "w", "[", "1", "]", ";", ":", "a", "w", ";", "a", "drop", "2">>,
      <<":", "w", "1">>,
      <<"[", "1", ":", "w", "2">>,
      <<"1", "2", "+">> }
\* scripts with a `;` or a `]` too many
UnmatchedC29 ==
    { <<";", "1">>, <<"1", ";">>, <<"]", "1">>, <<":", "w", "1", ";", ";", "w">>,
      <<"[", "1", "]", "]", "2">>, <<";", ":", "w", "1">>, <<";", ";">> }

Next_C29 ==
    Load({<<Source(s)>> : s \in MatchedC29 \cup UnmatchedC29})
        \/ Run \/ Execute \/ Interpret \/ Return
Spec_C29 == Init /\ [][Next_C29]_vars

BaseAtBottom(c) ==
    ctxs[c].compilationStack # <<>> /\ ctxs[c].compilationStack[1] = ctxs[c].base

\* C29 as stated: as long as a context has raised no error its compilation
\* stack is not empty and has the base entry at the bottom
C29_BaseEntryStays ==
    \A c \in Contexts : (phase = "ready" /\ ctxs[c].error = "") => BaseAtBottom(c)

\* what the program does: the base entry stays at the bottom in the scripts
\* whose closers all have an opener; a `]` too many removes the base entry
\* and raises the error in the same step; a `;` too many removes the base
\* entry and raises nothing, and the context goes on to the next token
BaseEntryStaysWhenMatched ==
    /\ [](\A c \in Contexts : \A s \in MatchedC29 :
            (phase = "ready" /\ ctxs[c].inputStream = Source(s))
                => ctxs[c].error = "" /\ BaseAtBottom(c))
    /\ [][\A c \in 1..Len(ctxs) :
            (phase = "ready" /\ c <= Len(ctxs') /\ BaseAtBottom(c) /\ ~BaseAtBottom(c)')
                => LET closer == ctxs[c].inputStream[ctxs'[c].inputStreamPointer] IN
                   /\ closer \in {";", "]"}
                   /\ (ctxs'[c].error = "") <=> (closer = ";")
                   /\ closer = "]" => ctxs'[c].error = CompilationStackUnderflow
                   /\ ctxs'[c].compilationStack = <<>>]_vars

\* the `;` of `; : w 1` has been processed: no error, nothing on the
\* compilation stack, and the rest of the input still to be read
C29_Witness ==
    \E c \in Contexts :
        /\ ctxs[c].inputStream = Source(<<";", ":", "w", "1">>)
        /\ ctxs[c].error = "" /\ ~ctxs[c].halted
        /\ ctxs[c].compilationStack = <<>>
        /\ ctxs[c].inputStreamPointer = 1

(***************************************************************************)
(* The control stack after a loop                                          *)
(***************************************************************************)
\* loop bodies: one that runs to endeach, one that leaves the definition by
\* `exit` at the first element greater than 3, one that leaves it at once
LoopBodies ==
    { [words |-> <<"I", "log">>, exitAt |-> 0],
      [words |-> <<"I", "log", "I", "3", ">", "if", "exit", "endif">>, exitAt |-> 2],
      [words |-> <<"I", "log", "exit">>, exitAt |-> 1] }
\* what the script puts on the control stack before it calls w
ControlBefore == {<<>>, <<"5", ">control">>}

\* `: w each body endeach 8 log ; before [ 3 5 ] w 9 log`; `leaves` tells
\* whether the body leaves w by exit (the loop over the empty array runs its
\* body once, with I undefined), `emitted` what is logged
LoopC30(body, n, before) ==
    LET leaves == body.exitAt > 0 /\ (body.exitAt = 1 \/ n >= body.exitAt)
        runs == IF leaves THEN body.exitAt ELSE IF n = 0 THEN 1 ELSE n
    IN  [script |-> Source(<<":", "w", "each">> \o body.words \o <<"endeach", "8", "log", ";">>
                           \o before \o Literal(n) \o <<"w", "9", "log">>),
         before |-> IF before = <<>> THEN <<>> ELSE <<Num(5)>>,
         leaves |-> leaves,
         index |-> runs - 1,
         emitted |-> [k \in 1..runs |-> At(Elements(n), k - 1)]
                        \o (IF leaves THEN <<>> ELSE <<Num(8)>>) \o <<Num(9)>>]

FamilyC30 ==
    {LoopC30(body, n, before) : body \in LoopBodies, n \in 0..MaxLen, before \in ControlBefore}

Next_C30 == Load({<<f.script>> : f \in FamilyC30}) \/ Run \/ Execute \/ Interpret \/ Return
Spec_C30 == Init /\ [][Next_C30]_vars

\* the script of f has ended in context c: w has returned to the top level,
\* which has logged 9
EndedC30(f, c) ==
    /\ phase = "ready" /\ ctxs[c].inputStream = f.script /\ Finished(c)

\* C30 as stated: when the definition holding the loop has returned, the
\* control stack is as it was before each ran, whichever way the definition
\* was left
C30_ControlStackRestored ==
    \A f \in FamilyC30 : \A c \in Contexts :
        EndedC30(f, c) => ctxs[c].error = "" /\ ctxs[c].controlStack = f.before

\* what the program does: a loop that runs to endeach leaves the control
\* stack as it was; a body that leaves the definition by exit leaves the
\* clone of the array, the index and the element of the iteration it left on
\* the control stack, above what was there before
ControlStackAfterLoop ==
    \A f \in FamilyC30 : \A c \in Contexts :
        EndedC30(f, c)
          => /\ ctxs[c].error = ""
             /\ ctxs[c].emitted = f.emitted
             /\ ~f.leaves => ctxs[c].controlStack = f.before
             /\ f.leaves
                  => LET n == Len(f.before) IN
                     /\ Len(ctxs[c].controlStack) = n + 3
                     /\ SubSeq(ctxs[c].controlStack, 1, n) = f.before
                     /\ ctxs[c].controlStack[n + 1][1] = "arr"
                     /\ ctxs[c].controlStack[n + 2] = Num(f.index)
                     /\ ctxs[c].controlStack[n + 3]
                          = At(heap[ctxs[c].controlStack[n + 1][2]], f.index)

\* `: w each I log I 3 > if exit endif endeach 8 log ; [ 3 5 ] w 9 log` has
\* ended: w was left at the second element, and the array, the index 1 and
\* the element 5 are still on the control stack
C30_Witness ==
    \E c \in Contexts :
        /\ ctxs[c].inputStream
              = Source(<<":", "w", "each", "I", "log", "I", "3", ">", "if", "exit", "endif",
                         "endeach", "8", "log", ";", "[", "3", "5", "]", "w", "9", "log">>)
        /\ ctxs[c].halted /\ ctxs[c].error = ""
        /\ ctxs[c].emitted = <<Num(3), Num(5), Num(9)>>
        /\ Len(ctxs[c].controlStack) = 3
        /\ ctxs[c].controlStack[2] = Num(1) /\ ctxs[c].controlStack[3] = Num(5)

(***************************************************************************)
(* I                                                                       *)
(***************************************************************************)
\* what a script moves to the control stack before it runs I
ControlPushes ==
    { <<>>, <<"5", ">control">>, <<"5", ">control", "6", ">control">>,
      <<"undefined", ">control">>, <<"[", "3", "]", ">control">> }

\* `pushes I I`, at top level or in the definition w, and a loop whose body
\* runs I twice
FamilyC31 ==
    {Source(IF inDef THEN <<":", "w">> \o p \o <<"I", "I", ";", "w">> ELSE p \o <<"I", "I">>) :
        p \in ControlPushes, inDef \in BOOLEAN}
    \cup {Source(<<"[", "3", "5", "]", "each", "I", "I", "+", "log", "endeach", "I">>)}

Next_C31 == Load({<<s>> : s \in FamilyC31}) \/ Run \/ Execute \/ Interpret \/ Return
Spec_C31 == Init /\ [][Next_C31]_vars

\* context c runs the cell I in this step
RunsI(c) == TriedCell(c, Prim("I"))

\* C31 as stated: a step that runs I pushes the top of the control stack
\* (undefined when there is none) onto the parameter stack and leaves the
\* control stack as it was, whatever is on it
C31_ControlStackUnchanged ==
    [][\A c \in 1..Len(ctxs) :
          RunsI(c)
            => /\ ctxs'[c].error = ""
               /\ ctxs'[c].controlStack = ctxs[c].controlStack
               /\ ctxs'[c].parameterStack
                     = ctxs[c].parameterStack
                         \o <<IF ctxs[c].controlStack = <<>> THEN Undef
                              ELSE Last(ctxs[c].controlStack)>>]_vars

\* what the program does: on a control stack that is not empty I does as
\* stated; on the empty control stack it pushes undefined onto the parameter
\* stack and onto the control stack as well
ControlStackUnchangedUnlessEmpty ==
    [][\A c \in 1..Len(ctxs) :
          RunsI(c)
            => /\ ctxs'[c].error = ""
               /\ ctxs[c].controlStack # <<>>
                    => /\ ctxs'[c].controlStack = ctxs[c].controlStack
                       /\ ctxs'[c].parameterStack
                             = ctxs[c].parameterStack \o <<Last(ctxs[c].controlStack)>>
               /\ ctxs[c].controlStack = <<>>
                    => /\ ctxs'[c].controlStack = <<Undef>>
                       /\ ctxs'[c].parameterStack = ctxs[c].parameterStack \o <<Undef>>]_vars

\* `I I` has run on an empty control stack: two values undefined are on the
\* parameter stack, and the control stack holds one
C31_Witness ==
    \E c \in Contexts :
        /\ ctxs[c].inputStream = Source(<<"I", "I">>)
        /\ ctxs[c].halted /\ ctxs[c].error = ""
        /\ ctxs[c].parameterStack = <<Undef, Undef>>
        /\ ctxs[c].controlStack = <<Undef>>

(***************************************************************************)
(* A raw value cell and the two cells `lit`, value                         *)
(***************************************************************************)
\* the words of the immediate word k that leave a value on the stack at
\* compile time, and the value when it is the same in every script
Producers ==
    { [words |-> <<"5">>, value |-> Num(5)],
      [words |-> <<"0">>, value |-> Num(0)],
      [words |-> <<"-1">>, value |-> Num(0 - 1)],
      [words |-> <<"true">>, value |-> Bool(TRUE)],
      [words |-> <<"false">>, value |-> Bool(FALSE)],
      [words |-> <<"undefined">>, value |-> Undef],
      [words |-> <<"[", "3", "]">>, value |-> <<"any">>],
      [words |-> <<"latest">>, value |-> <<"any">>],
      [words |-> <<"here">>, value |-> <<"any">>] }

\* `: k immediate V , ;` appends the raw cell V to the target, and
\* `: k immediate tick lit , V , ;` appends the two cells lit, V; the target
\* is the definition w or the base entry
ScriptC32(p, withLit, inDef) ==
    Source(<<":", "k", "immediate">>
           \o (IF withLit THEN <<"tick", "lit", ",">> ELSE <<>>)
           \o p.words \o <<",", ";">>
           \o (IF inDef THEN <<":", "w", "1", "k", "2", ";", "w">> ELSE <<"1", "k", "2">>))

FamilyC32 ==
    {[script |-> ScriptC32(p, withLit, inDef), value |-> p.value] :
        p \in Producers, withLit \in BOOLEAN, inDef \in BOOLEAN}

Next_C32 == Load({<<f.script>> : f \in FamilyC32}) \/ Run \/ Execute \/ Interpret \/ Return
Spec_C32 == Init /\ [][Next_C32]_vars

\* context c runs the cell its top frame stands at in this step
RunsCell(c) ==
    /\ c <= Len(ctxs) /\ c <= Len(ctxs')
    /\ Len(ctxs'[c].trace) > Len(ctxs[c].trace)

\* the step pushes v once onto the parameter stack of c, leaves the top frame
\* at index j and changes nothing else
PushesAndGoesOn(c, v, j) ==
    /\ ctxs' = [ctxs EXCEPT ![c].parameterStack = Append(@, v),
                            ![c].returnStack = [@ EXCEPT ![Len(@)].i = j],
                            ![c].trace = ctxs'[c].trace]
    /\ UNCHANGED <<dict, heap, latest, timers, listeners>>

\* C32: a step of the executor at a cell V that is not callable pushes V
\* once and leaves the frame at the cell after V; a step at a cell lit that
\* is followed by such a V does the same, the cell after V being two cells
\* on; so the script that compiled V alone and the script that compiled
\* lit, V both leave 1, V, 2
C32_RawCellSameAsLit ==
    /\ [][\A c \in 1..Len(ctxs) :
            RunsCell(c)
              => LET e == Frame(c).dictionaryEntry
                     i == Frame(c).i
                 IN  /\ ~IsCallable(CellAt(e, i))
                          => PushesAndGoesOn(c, CellAt(e, i), i + 1)
                     /\ (CellAt(e, i) = Prim("lit")
                            /\ i + 1 < Len(heap[dict[e].compiled])
                            /\ ~IsCallable(CellAt(e, i + 1)))
                          => PushesAndGoesOn(c, CellAt(e, i + 1), i + 2)]_vars
    /\ [](\A f \in FamilyC32 : \A c \in Contexts :
            (phase = "ready" /\ ctxs[c].inputStream = f.script /\ Finished(c))
                => /\ ctxs[c].error = ""
                   /\ Len(ctxs[c].parameterStack) = 3
                   /\ ctxs[c].parameterStack[1] = Num(1)
                   /\ ctxs[c].parameterStack[3] = Num(2)
                   /\ ~IsCallable(ctxs[c].parameterStack[2])
                   /\ f.value # <<"any">> => ctxs[c].parameterStack[2] = f.value)

\* `: k immediate tick lit , [ 3 ] , ; : w 1 k 2 ; w` has ended with 1, the
\* array and 2 on the stack, w holding the four cells 1, lit, array, 2
C32_Witness ==
    \E c \in Contexts :
        /\ ctxs[c].inputStream
              = ScriptC32([words |-> <<"[", "3", "]">>, value |-> <<"any">>], TRUE, TRUE)
        /\ ctxs[c].halted /\ ctxs[c].error = ""
        /\ Len(ctxs[c].parameterStack) = 3
        /\ ctxs[c].parameterStack[2][1] = "arr"
        /\ latest # 0
        /\ Len(heap[dict[latest].compiled]) = 4
        /\ CellAt(latest, 1) = Prim("lit")
        /\ CellAt(latest, 2) = ctxs[c].parameterStack[2]

(***************************************************************************)
(* Where the cursor is when an immediate word starts                       *)
(***************************************************************************)
\* what separates the immediate word from the word before it, and what
\* follows the immediate word
Separators == {<<" ">>, <<" ", " ">>, <<"\n">>, <<"\t", " ">>}
Followers == {<<>>, <<" ">>, <<" ", "1">>, <<" ", " ", "1">>, <<"\n", "1">>, <<"\t">>}

\* `: m immediate 7 ;`, then m after a separator and before a follower; or a
\* definition closed by `;` before the follower; or an array closed by `]`
ImmediateScripts ==
    {Source(<<":", "m", "immediate", "7", ";">>) \o sep \o Spell("m") \o fol :
        sep \in Separators, fol \in Followers}
    \cup {Source(<<":", "w", "1">>) \o sep \o Spell(";") \o fol :
            sep \in Separators, fol \in Followers}
    \cup {Source(<<"[", "1">>) \o sep \o Spell("]") \o fol :
            sep \in Separators, fol \in Followers}

\* a string literal `' ab'` before a follower: the payload starts one
\* character after the cursor the word ' is started with
QuoteScripts == {Spell("'") \o <<" ", "a", "b", "'">> \o fol : fol \in Followers}

FamilyC33 == ImmediateScripts \cup QuoteScripts

Next_C33 == Load({<<s>> : s \in FamilyC33}) \/ Run \/ Execute \/ Interpret \/ Return
Spec_C33 == Init /\ [][Next_C33]_vars

\* the entry find gives for the word interpret is about to read
Triggered(c) == Lookup(World, latest, ctxPeek(word(World, c), c)[2])

\* the index after the last character of that word
WordEnd(c) ==
    ScanTo(ctxs[c].inputStream,
           ScanTo(ctxs[c].inputStream, ctxs[c].inputStreamPointer, "\\S"), "\\s")

\* this step of context c is an interpret that reads an immediate word
StartsImmediate(c) ==
    /\ phase = "ready" /\ callStack # <<>> /\ Current = c /\ Running(World, c)
    /\ c <= Len(ctxs')
    /\ ctxs[c].returnStack = <<>>
    /\ ctxs[c].inputStreamPointer < Len(ctxs[c].inputStream)
    /\ WordEnd(c) > ScanTo(ctxs[c].inputStream, ctxs[c].inputStreamPointer, "\\S")
    /\ Triggered(c) # 0
    /\ dict[Triggered(c)].isImmediate
    /\ ctxs' # ctxs

\* the immediate words of these scripts whose primitive leaves the cursor
\* where it finds it
KeepsCursor(e) == dict[e].name \in {Spell("m"), Spell(";"), Spell("]"), Spell("["),
                                    Spell("immediate")}

\* C33 as stated: when the primitive of the immediate word starts, the
\* cursor is one past the whitespace character that follows the word
C33_CursorAfterTrailingWhitespace ==
    [][\A c \in 1..Len(ctxs) :
          (StartsImmediate(c) /\ KeepsCursor(Triggered(c)))
            => /\ WordEnd(c) < Len(ctxs[c].inputStream)
               /\ IsSpace(ctxs[c].inputStream[WordEnd(c) + 1])
               /\ ctxs'[c].inputStreamPointer = WordEnd(c) + 1]_vars

\* C33: when the primitive of the immediate word starts, the cursor is one
\* past the last character of the word, that is at the whitespace character
\* that follows the word, or at the end of the input when nothing follows
\* it; the word ' steps over one character from there and takes its string
\* from the next one
C33_CursorAtTrailingWhitespace ==
    /\ [][\A c \in 1..Len(ctxs) :
            StartsImmediate(c)
              => /\ KeepsCursor(Triggered(c))
                      => /\ ctxs'[c].inputStreamPointer = WordEnd(c)
                         /\ \/ WordEnd(c) = Len(ctxs[c].inputStream)
                            \/ IsSpace(ctxs[c].inputStream[WordEnd(c) + 1])
                 /\ dict[Triggered(c)].name = Spell("'")
                      => /\ ctxs'[c].inputStreamPointer
                              = ScanTo(ctxs[c].inputStream, WordEnd(c) + 1, "'") + 1
                         /\ Last(heap'[dict[Last(ctxs[c].compilationStack)].compiled])
                              = Str(Slice(ctxs[c].inputStream, WordEnd(c) + 1,
                                          ScanTo(ctxs[c].inputStream, WordEnd(c) + 1, "'")))]_vars
    /\ [](\A c \in Contexts :
            (phase = "ready" /\ ctxs[c].inputStream \in QuoteScripts /\ Finished(c))
                => /\ ctxs[c].error = ""
                   /\ ctxs[c].parameterStack[1] = Str(<<"a", "b">>))

\* m was the last word of `: m immediate 7 ;  m`: interpret has started it
\* with the cursor at the end of the input
C33_Witness ==
    \E c \in Contexts :
        /\ ctxs[c].inputStream = Source(<<":", "m", "immediate", "7", ";">>) \o <<" ", " ", "m">>
        /\ ctxs[c].inputStreamPointer = Len(ctxs[c].inputStream)
        /\ ctxs[c].returnStack = <<[dictionaryEntry |-> EntryOf("m"), i |-> 0]>>
        /\ ~ctxs[c].didExecuteAndEnd /\ ctxs[c].error = ""

(***************************************************************************)
(* consume called by the host on a context with a given input and pointer  *)
(***************************************************************************)
MaxInput == 3
InputChars == {"a", "'", "\\", " "}
InputsC34 == UNION {[1..n -> InputChars] : n \in 0..MaxInput}

\* `until`: a character, the empty string, a string of two characters, or
\* one of the regular expressions /\s/ and /\S/
Untils == {"'", "a", "\\", "", "aa", "\\s", "\\S"}

\* the calls consume({ctx, until, including}) on a context whose input is
\* `input` and whose pointer is p: p is within the input or at its end, or
\* one past its end when the input ends with the word ', which steps over
\* one character before it calls consume
CallsC34 ==
    {[input |-> input, p |-> p, until |-> until, including |-> including] :
        input \in InputsC34, p \in 0..(MaxInput + 1), until \in Untils,
        including \in BOOLEAN}

\* the host makes a context and assigns its inputStream and
\* inputStreamPointer
Prepare ==
    /\ phase = "ready"
    /\ callStack = <<>>
    /\ pending # <<>>
    /\ ctxs = <<>>
    /\ \/ Head(pending).p <= Len(Head(pending).input)
       \/ /\ Head(pending).p = Len(Head(pending).input) + 1
          /\ Head(pending).input # <<>>
          /\ Last(Head(pending).input) = "'"
    /\ Commit([newCtx(World) EXCEPT
                 !.ctxs[NewCtxId(World)].inputStream = Head(pending).input,
                 !.ctxs[NewCtxId(World)].inputStreamPointer = Head(pending).p],
              NewCtxId(World))
    /\ UNCHANGED <<callStack, phase, pending>>

\* the host calls consume on that context and keeps the string it returns
HostConsume ==
    /\ phase = "ready"
    /\ callStack = <<>>
    /\ pending # <<>>
    /\ Len(ctxs) = 1
    /\ Commit([consume(World, 1, Head(pending).until, Head(pending).including, FALSE)
                 EXCEPT !.ctxs[1].returned =
                            Str(consumed(World, 1, Head(pending).until, FALSE))], 1)
    /\ pending' = Tail(pending)
    /\ UNCHANGED <<callStack, phase>>

Next_C34 ==
    \/ Load({<<call>> : call \in CallsC34})
    \/ Execute \/ Interpret \/ Return \/ Prepare \/ HostConsume
Spec_C34 == Init /\ [][Next_C34]_vars

\* the indices >= p of the characters of the input that match `until`
MatchesFrom(input, p, until) ==
    {k \in p..(Len(input) - 1) : Matches(until, input[k + 1])}

\* the first of them, or the length of the input when there is none
FirstMatch(input, p, until) ==
    IF MatchesFrom(input, p, until) = {} THEN Len(input)
    ELSE CHOOSE k \in MatchesFrom(input, p, until) :
            \A j \in MatchesFrom(input, p, until) : k <= j

\* the first of them, or where there is none the length of the input, or p
\* when p is beyond that
FirstMatchOrEnd(input, p, until) ==
    IF MatchesFrom(input, p, until) = {} /\ p > Len(input) THEN p
    ELSE FirstMatch(input, p, until)

RECURSIVE Unescaped(_, _)
\* s from its character j on, without the backslashes that are followed by a
\* character other than a backslash
Unescaped(s, j) ==
    IF j > Len(s) THEN <<>>
    ELSE IF s[j] = "\\" /\ j < Len(s) /\ s[j + 1] # "\\" THEN Unescaped(s, j + 1)
    ELSE <<s[j]>> \o Unescaped(s, j + 1)

\* this step is the call of consume
CallsConsume == phase = "ready" /\ pending # <<>> /\ Len(ctxs) = 1 /\ pending' = <<>>

\* the step returns the slice [p, k) unescaped, leaves the pointer at k, or
\* at k + 1 when `including`, raises nothing and changes nothing else
ConsumesTo(k) ==
    /\ ctxs' = [ctxs EXCEPT
                  ![1].returned =
                      Str(Unescaped(Slice(ctxs[1].inputStream,
                                          ctxs[1].inputStreamPointer, k), 1)),
                  ![1].inputStreamPointer = k + (IF Head(pending).including THEN 1 ELSE 0)]
    /\ UNCHANGED <<dict, heap, latest, timers, listeners, anonCount, coreWords, callStack>>

\* C34 as stated: k is the first index >= p whose character matches `until`,
\* or the length of the input if no character matches
C34_ConsumeToFirstMatchOrLength ==
    [][CallsConsume
         => ConsumesTo(FirstMatch(ctxs[1].inputStream, ctxs[1].inputStreamPointer,
                                  Head(pending).until))]_vars

\* C34: as stated when p is at most the length of the input; when p is
\* beyond it consume returns the empty string and k is p
C34_ConsumeToFirstMatchOrEnd ==
    [][CallsConsume
         => ConsumesTo(FirstMatchOrEnd(ctxs[1].inputStream, ctxs[1].inputStreamPointer,
                                       Head(pending).until))]_vars

\* consume({until: "'", including: true}) on the input `\'a'` with the
\* pointer at 0 has stopped at the first quote, escaped though it is, and
\* returned a backslash
C34_Witness ==
    /\ phase = "ready" /\ pending = <<>> /\ Len(ctxs) = 1
    /\ ctxs[1].inputStream = <<"\\", "'", "a">>
    /\ ctxs[1].inputStreamPointer = 2
    /\ ctxs[1].returned = Str(<<"\\">>)
    /\ ctxs[1].error = ""

(***************************************************************************)
(* The host calls query on a context that `sleep` has paused               *)
(***************************************************************************)
\* scripts that run each of their cells once, with one sleep or two
StraightSleepers(d) ==
    { <<"7", NumberWord(d), "sleep", "2", "log">>,
      <<NumberWord(d), "sleep">>,
      <<":", "w", "7", NumberWord(d), "sleep", "2", "log", ";", "w", "3", "log">>,
      <<"1", "log", NumberWord(d), "sleep", "2", "log", "1", "sleep", "3", "log">> }

\* scripts that sleep in a loop
LoopingSleepers(d) ==
    { <<":", "w", "2", "begin", NumberWord(d), "sleep", "1", "-", "dup", "1", "<", "until",
        ";", "w">>,
      <<"[", "3", "5", "]", "each", NumberWord(d), "sleep", "I", "log", "endeach">> }

StraightC35 == UNION {{Source(s) : s \in StraightSleepers(d)} : d \in 0..MaxDelay}

SuiteC35 ==
    {<<s>> : s \in StraightC35}
    \cup UNION {{<<Source(s)>> : s \in LoopingSleepers(d)} : d \in 0..MaxDelay}
    \cup {<<Source(<<"7", NumberWord(d), "sleep", "2", "log">>),
            Source(<<"1", "sleep", "4", "log">>)>> : d \in 0..MaxDelay}

\* host code, which runs when no call of query is active, calls query on a
\* context that is paused
HostQueries ==
    /\ phase = "ready"
    /\ callStack = <<>>
    /\ \E c \in Contexts :
          /\ ctxs[c].paused
          /\ callStack' = <<[ctx |-> c, caller |-> "host"]>>
    /\ UNCHANGED <<dict, heap, latest, doneDefiningCoreWords, coreWords, anonCount, ctxs,
                   timers, listeners, clock, phase, pending>>

Next_C35 ==
    \/ Load(SuiteC35)
    \/ Run \/ Execute \/ Interpret \/ Return \/ Timeout \/ HostQueries
Spec_C35 == Init /\ [][Next_C35]_vars

\* the event loop runs the callback of a timer that is due however often
\* the host calls query in between, each of those calls returning
FairSpec_C35 == Spec_C35 /\ SF_vars(Timeout) /\ LoopGoesOn /\ WF_vars(Return)

\* the timers context c has pending
TimersOf(c) == {k \in 1..Len(timers) : timers[k].ctx = c}

\* the cells context c has run, each once
RanEachOnce(c) ==
    \A j, k \in 1..Len(ctxs[c].trace) : ctxs[c].trace[j] = ctxs[c].trace[k] => j = k

\* C35: while a call of query is active on a paused context the only step
\* is the return of that call, which changes no context, entry, array or
\* timer; a step that runs `sleep` sets one timer, a context has at most one
\* timer pending, and one is pending exactly while `sleep` was the last cell
\* the context ran and it is paused; the callback takes that timer away and
\* the next cell the context runs is the one after `sleep`; a context that
\* sleeps is resumed and halts; and a script without loops has then run each
\* of its cells once
C35_PausedQueryIsIdle ==
    /\ [][(phase = "ready" /\ callStack # <<>> /\ ctxs[Current].paused)
            => /\ callStack' = Front(callStack)
               /\ UNCHANGED <<dict, heap, latest, ctxs, timers, listeners, clock>>]_vars
    /\ [][\A c \in Contexts \cap (1..Len(ctxs')) :
            /\ RanSleep(c)
                 => /\ TimersOf(c) = {}
                    /\ Cardinality(TimersOf(c)') = 1
                    /\ Len(timers') = Len(timers) + 1
            /\ (TimersOf(c) # {} /\ TimersOf(c)' = {})
                 => /\ TimerFires(c)
                    /\ ctxs'[c] = [ctxs[c] EXCEPT !.paused = FALSE]
            /\ (/\ ctxs[c].trace # <<>>
                /\ LastCell(c) = Prim("sleep")
                /\ Len(ctxs'[c].trace) > Len(ctxs[c].trace))
                 => /\ TimersOf(c) = {}
                    /\ Last(ctxs'[c].trace)
                         = <<Last(ctxs[c].trace)[1], Last(ctxs[c].trace)[2] + 1>>]_vars
    /\ [](\A c \in Contexts :
            /\ Cardinality(TimersOf(c)) <= 1
            /\ (phase = "ready" /\ ctxs[c].paused)
                 => (TimersOf(c) # {} /\ LastCell(c) = Prim("sleep"))
            /\ (phase = "ready" /\ TimersOf(c) # {}) => ctxs[c].paused
            /\ (phase = "ready" /\ ctxs[c].halted /\ ctxs[c].inputStream \in StraightC35)
                 => /\ RanEachOnce(c)
                    /\ \A e \in {ctxs[c].trace[k][1] : k \in 1..Len(ctxs[c].trace)} :
                          CellsRun(c, e) = [k \in 1..Len(heap[dict[e].compiled]) |-> k - 1])
    /\ \A c \in ContextsOf(SuiteC35) :
          (c \in Contexts /\ TimersOf(c) # {})
              ~> (c \in Contexts /\ TimersOf(c) = {} /\ ~ctxs[c].paused)
    /\ \A c \in ContextsOf(SuiteC35) :
          (c \in Contexts /\ ctxs[c].paused) ~> (c \in Contexts /\ ctxs[c].halted)

\* the host has called query on `1 log 2 sleep 2 log 1 sleep 3 log` while
\* its second sleep had it paused: the call is active, and the context has
\* run the cells up to that sleep and no further
C35_Witness ==
    /\ phase = "ready" /\ Len(ctxs) = 1
    /\ ctxs[1].inputStream
          = Source(<<"1", "log", "2", "sleep", "2", "log", "1", "sleep", "3", "log">>)
    /\ callStack = <<[ctx |-> 1, caller |-> "host"]>>
    /\ ctxs[1].paused /\ ~ctxs[1].halted
    /\ ctxs[1].emitted = <<Num(1), Num(2)>>
    /\ Len(ctxs[1].trace) = 8
    /\ Len(timers) = 1

(***************************************************************************)
(* The stack primitives on a stack that is too short                       *)
(***************************************************************************)
StackWords == {"dup", "drop", "swap", "over", "rot", "-rot", "2dup"}

\* the number of values each consumes
Consumes(name) ==
    CASE name \in {"dup", "drop"} -> 1
      [] name \in {"swap", "over", "2dup"} -> 2
      [] name \in {"rot", "-rot"} -> 3

\* `1 .. n name 9`, at top level or in the definition w, for 0 <= n <= 3
ScriptC36(name, n, inDef) ==
    LET body == [k \in 1..n |-> NumberWord(k)] \o <<name, "9">>
    IN  Source(IF inDef THEN <<":", "w">> \o body \o <<";", "w">> ELSE body)

FamilyC36 == {ScriptC36(name, n, inDef) : name \in StackWords, n \in 0..3, inDef \in BOOLEAN}

Next_C36 == Load({<<s>> : s \in FamilyC36}) \/ Run \/ Execute \/ Interpret \/ Return
Spec_C36 == Init /\ [][Next_C36]_vars

\* context c runs the stack primitive `name` in this step with fewer values
\* on the stack than it consumes
RunsShort(c, name) ==
    /\ TriedCell(c, Prim(name))
    /\ Len(ctxs[c].parameterStack) < Consumes(name)

\* C36 as stated: the primitive fails with StackUnderflow and the parameter
\* stack is as it was before the primitive ran
C36_UnderflowLeavesStack ==
    [][\A c \in 1..Len(ctxs) : \A name \in StackWords :
          RunsShort(c, name)
            => /\ ctxs'[c].error = StackUnderflow
               /\ ctxs'[c].parameterStack = ctxs[c].parameterStack]_vars

\* what the program does: dup on the empty stack does not fail and pushes
\* undefined; each of the others fails with StackUnderflow after it has
\* popped every value there was, so the parameter stack is left empty
UnderflowEmptiesStack ==
    [][\A c \in 1..Len(ctxs) : \A name \in StackWords :
          RunsShort(c, name)
            => IF name = "dup"
               THEN /\ ctxs'[c].error = ""
                    /\ ctxs'[c].parameterStack = <<Undef>>
               ELSE /\ ctxs'[c].error = StackUnderflow
                    /\ ctxs'[c].parameterStack = <<>>]_vars

\* `1 2 rot 9` has failed with StackUnderflow and the two values are gone
C36_Witness ==
    \E c \in Contexts :
        /\ ctxs[c].inputStream = ScriptC36("rot", 2, FALSE)
        /\ ctxs[c].error = StackUnderflow
        /\ ctxs[c].parameterStack = <<>>
        /\ LastCell(c) = Prim("rot")

(***************************************************************************)
(* Termination of scripts without loops                                    *)
(***************************************************************************)
\* the iterations of the loop of query a context is followed for
MaxSteps == 90

\* scripts of numbers, stack words, if/else/endif and calls of words defined
\* before: some fail, some leave an `if` or a definition open
LoopFree ==
    { <<>>, <<"1", "2", "+">>, <<"z">>, <<"1", "drop", "drop", "2">>,
      <<":", "a", "1", ";", ":", "b", "a", "a", ";", "b", "b">>,
      <<":", "a", "1", ";", ":", "b", "a", "drop", "drop", ";", "b", "3">>,
      <<":", "a", "b", ";", "a">>,
      <<":", "w", "true", "if", "false", "if", "1", "else", "2", "endif", "else", "3",
        "endif", "4", ";", "w">>,
      <<"true", "if", "1">>, <<"false", "if", "1">>, <<"false", "if", "1", "else", "2">>,
      <<"else", "1">>, <<"1", "endif">>, <<":", "w", "1">> }
    \cup {<<":", "a", c, "if", "1", "else", "2", "endif", ";", ":", "w", "a", c, "if", "a",
            "endif", ";", "w", "a">> : c \in {"true", "false", "0", "undefined"}}
    \cup {<<c, "if", "1", "else", "2", "endif", "3">> : c \in {"true", "false", "0"}}

\* scripts whose last cell, of the base entry or of a definition, is `lit`
EndingInLit == {<<"lit">>, <<"7", "lit">>, <<":", "w", "lit", ";", "w", "3">>}

\* scripts that differ in whitespace only
Blank == {<<" ">>, <<" ", "\n", " ">>, <<" ", "1", " ", " ">>}

ScriptsC37 == {Source(s) : s \in LoopFree} \cup Blank
LitC37 == {Source(s) : s \in EndingInLit}

\* an iteration of the loop of query with a frame on the return stack, for a
\* context that has run fewer than MaxSteps cells
ExecuteWithin == Execute /\ Len(ctxs[Current].trace) < MaxSteps

SuiteC37 == {<<s>> : s \in ScriptsC37 \cup LitC37}

Next_C37 ==
    \/ Load(SuiteC37)
    \/ Run \/ ExecuteWithin \/ Interpret \/ Return
Spec_C37 == Init /\ [][Next_C37]_vars

\* an iteration of the loop of query is possible for a context that is
\* followed
InLoopWithin ==
    /\ InLoop
    /\ ctxs[Current].returnStack # <<>> => Len(ctxs[Current].trace) < MaxSteps

\* a call of query goes on until its loop ends, as far as the context is
\* followed
FairSpec_C37 ==
    /\ Spec_C37
    /\ ([]<>(~InLoopWithin) \/ []<><<InLoopWithin>>_vars)
    /\ WF_vars(Return)

\* this step of context c is an interpret made with the cursor before the
\* end of the input
InterpretsInput(c) ==
    /\ phase = "ready" /\ callStack # <<>> /\ Current = c /\ Running(World, c)
    /\ c <= Len(ctxs')
    /\ ctxs[c].returnStack = <<>>
    /\ ctxs[c].inputStreamPointer < Len(ctxs[c].inputStream)

\* the top frame of context c stands beyond the end of its entry
PastTheEnd(c) ==
    /\ HasFrame(World, c)
    /\ Frame(c).i > Len(heap[dict[Frame(c).dictionaryEntry].compiled])

TerminatesUnlessPastTheEnd ==
    /\ [][\A c \in 1..Len(ctxs) :
            /\ InterpretsInput(c)
                 => ctxs'[c].inputStreamPointer > ctxs[c].inputStreamPointer
            /\ (phase = "ready" /\ c <= Len(ctxs') /\ PastTheEnd(c) /\ ctxs'[c] # ctxs[c])
                 => /\ ctxs'[c].parameterStack = Append(ctxs[c].parameterStack, Undef)
                    /\ LandsAt(c, Frame(c).i + 1)
                    /\ ~Finished(c)']_vars
    /\ [](\A c \in Contexts :
            (phase = "ready" /\ ctxs[c].inputStream \in ScriptsC37)
                => /\ ~PastTheEnd(c)
                   /\ Len(ctxs[c].trace) < MaxSteps)
    /\ [](\A c \in Contexts :
            (phase = "ready" /\ PastTheEnd(c))
                => /\ ctxs[c].inputStream \in LitC37
                   /\ LastCell(c) \in {Prim("lit"), Undef})
    /\ \A c \in ContextsOf(SuiteC37) :
          (phase = "ready" /\ c \in Contexts /\ ctxs[c].inputStream \in ScriptsC37)
              ~> (c \in Contexts /\ Finished(c))

SuiteC38 ==
    { <<Source(<<":", "a", "1", ";", "[", "2", "]", "drop", ":", "a", "3", ";", "a">>)>>,
      <<Source(<<":", "w", "[", "1", "[", "2", "]", "]", ";", "w">>),
        Source(<<"w", ":", "b", "w", ";", "b">>)>>,
      <<Source(<<"var:", "v", "5", "v", "!", "v", "@">>),
        Source(<<"v", "@", "[", "v", "@", "]">>)>>,
      <<Source(<<"5", "const:", "k", "k", "[", "k", "]">>)>>,
      <<Source(<<"1", ":">>), Source(<<"2">>)>>,
      <<Source(<<"[", "1">>), Source(<<":", "x", "2", ";", "x">>)>>,
      <<Source(<<":", "a", "1", ";", ":", "b", "a", ";", ":", "a", "b", "b", ";", "a">>),
        Source(<<"a", "b", "[", "]">>)>>,
      <<Source(<<":", "dup", "7", ";", "[", "dup", "]">>), Source(<<"dup", "z">>)>> }

Next_C38 == Load(SuiteC38) \/ Run \/ Execute \/ Interpret \/ Return
Spec_C38 == Init /\ [][Next_C38]_vars

\* the name define gives an entry made without a name, or the empty name
IsAnonymousName(name) ==
    \/ name = <<>>
    \/ Len(name) >= 10 /\ SubSeq(name, 1, 10) = Spell("anonymous-")

\* the entries made with a name
NamedEntries == {e \in 1..Len(dict) : ~IsAnonymousName(dict[e].name)}

\* the most recent of them, 0 when there is none
MostRecentNamed ==
    IF NamedEntries = {} THEN 0
    ELSE CHOOSE e \in NamedEntries : \A d \in NamedEntries : d <= e

\* what find gives for `name`, 0 for undefined, before and after the step
Found(name) == Lookup([dict |-> dict], latest, name)
FoundAfter(name) == Lookup([dict |-> dict'], latest', name)

\* the names of all entries
NamesInUse == {dict[e].name : e \in 1..Len(dict)}

\* this step makes entries, none of them with a name
MakesAnonymousOnly ==
    /\ Len(dict') > Len(dict)
    /\ \A e \in (Len(dict) + 1)..Len(dict') : IsAnonymousName(dict'[e].name)

\* C38: the entry before each entry is an older one, so the walk from
\* `latest` along `previous` ends; `latest` is the most recent entry made
\* with a name; no step removes an entry or changes the name or the
\* predecessor of one; a name that find finds is found after every step;
\* and a step that makes only anonymous entries leaves `latest` and what
\* find gives for every name as they were
C38_DictionaryIsAppendOnlyChain ==
    /\ [](\A e \in 1..Len(dict) : dict[e].previous \in 0..(e - 1))
    /\ [](latest = MostRecentNamed)
    /\ [][\A e \in 1..Len(dict) :
            /\ e <= Len(dict')
            /\ dict'[e].name = dict[e].name
            /\ dict'[e].previous = dict[e].previous]_vars
    /\ [][\A name \in NamesInUse : Found(name) # 0 => FoundAfter(name) # 0]_vars
    /\ [][MakesAnonymousOnly
            => /\ latest' = latest
               /\ \A name \in NamesInUse' : FoundAfter(name) = Found(name)]_vars

\* `: w [ 1 [ 2 ] ] ; w` has run and a second context compiles `w : b w ; b`:
\* w was found again after three anonymous entries were made, two for the
\* arrays and one for the second context, and b is the latest entry
C38_Witness ==
    /\ phase = "ready" /\ Len(ctxs) = 2
    /\ ctxs[2].inputStream = Source(<<"w", ":", "b", "w", ";", "b">>)
    /\ ctxs[2].halted /\ ctxs[2].error = ""
    /\ latest = EntryOf("b")
    /\ EntryOf("w") > ctxs[1].base /\ EntryOf("w") < ctxs[2].base
    /\ Cardinality({e \in 1..Len(dict) : e > EntryOf("w") /\ IsAnonymousName(dict[e].name)}) = 3
    /\ ctxs[2].parameterStack[1][1] = "arr"

(***************************************************************************)
(* A script that fails inside a definition, and the scripts run after it   *)
(***************************************************************************)
\* attributes whose compilation fails in the definition of w at the unknown
\* word z, the cells compiled into w before that, and what those cells
\* leave on a stack
FailingDefinitions ==
    { [words |-> <<":", "w", "z", ";">>, cells |-> <<>>, leaves |-> <<>>],
      [words |-> <<":", "w", "1", "z", "2", ";">>, cells |-> <<Num(1)>>,
       leaves |-> <<Num(1)>>],
      [words |-> <<":", "w", "1", "2", "+", "z", ";", "w">>,
       cells |-> <<Num(1), Num(2), Prim("+")>>, leaves |-> <<Num(3)>>],
      [words |-> <<"7", ":", "w", "1", "dup", "z">>, cells |-> <<Num(1), Prim("dup")>>,
       leaves |-> <<Num(1), Num(1)>>] }

\* attributes of the elements after it: they use w, directly or in a
\* definition of their own, with `before` on the stack
LaterScripts ==
    { [words |-> <<"w">>, before |-> <<>>],
      [words |-> <<"9", "w">>, before |-> <<Num(9)>>],
      [words |-> <<":", "b", "w", ";", "b">>, before |-> <<>>] }

\* the page has an element whose attribute fails and one after it; or one
\* that defines w as `: w 5 ;` before the two
SuiteC39 ==
    {<<Source(f.words), Source(u.words)>> : f \in FailingDefinitions, u \in LaterScripts}
    \cup {<<Source(<<":", "w", "5", ";">>), Source(f.words), Source(u.words)>> :
            f \in FailingDefinitions, u \in LaterScripts}

Next_C39 ==
    \/ LoadBrowser(SuiteC39)
    \/ RunAttributes \/ Execute \/ Interpret \/ Return
Spec_C39 == Init /\ [][Next_C39]_vars

\* a script of FailingDefinitions has failed in context c
FailedIn(c) ==
    /\ phase = "ready" /\ c \in Contexts /\ ctxs[c].error # ""
    /\ \E f \in FailingDefinitions : ctxs[c].inputStream = Source(f.words)

\* the entry the script `: w 5 ;` of the first element defined, 0 if the
\* page has no such element
DefinedBefore ==
    IF ctxs[1].inputStream = Source(<<":", "w", "5", ";">>)
    THEN CHOOSE e \in 1..Len(dict) :
            /\ dict[e].name = Spell("w")
            /\ \A d \in 1..Len(dict) : dict[d].name = Spell("w") => e <= d
    ELSE 0

\* C39 as stated: once the script has failed, find gives for w what it gave
\* before the script, which is undefined unless an earlier element defined
\* w, and `latest` is not the entry the failed script made
C39_FailedDefinitionNotFindable ==
    \A c \in Contexts :
        FailedIn(c) => (EntryOf("w") = DefinedBefore /\ latest < ctxs[c].base)

\* what the program does: once the script has failed, w is the latest entry
\* and is the one the failed script made, holding the cells compiled before
\* the failure; the scripts of the later elements find it and run those
\* cells
FailedDefinitionStaysFindable ==
    /\ \A c \in Contexts : \A f \in FailingDefinitions :
          (FailedIn(c) /\ ctxs[c].inputStream = Source(f.words))
            => /\ ctxs[c].error = "Could not comprehend word"
               /\ EntryOf("w") > ctxs[c].base
               /\ c = Len(ctxs) => latest = EntryOf("w")
               /\ Compiled(World, EntryOf("w")) = f.cells
    /\ \A c \in Contexts : \A f \in FailingDefinitions : \A u \in LaterScripts :
          (/\ phase = "ready" /\ c > 1 /\ Finished(c)
           /\ ctxs[c].inputStream = Source(u.words)
           /\ ctxs[c - 1].inputStream = Source(f.words))
            => /\ ctxs[c].error = ""
               /\ ctxs[c].parameterStack = u.before \o f.leaves

\* the attribute `: w 1 z 2 ;` has failed at z, and the attribute `w` of the
\* next element has run the one cell of w and halted with 1 on its stack
C39_Witness ==
    /\ phase = "ready" /\ Len(ctxs) = 2
    /\ ctxs[1].inputStream = Source(<<":", "w", "1", "z", "2", ";">>)
    /\ ctxs[1].error = "Could not comprehend word"
    /\ ctxs[2].inputStream = Source(<<"w">>)
    /\ ctxs[2].halted /\ ctxs[2].error = ""
    /\ ctxs[2].parameterStack = <<Num(1)>>
    /\ ctxs[2].me = Element1
====
